---- MODULE Spec2Model ----
(***************************************************************************)
(* A model of ubercopy: main() parses the previous and the freshly         *)
(* generated manifest, sync() reconciles the destination tree in six       *)
(* phases over a scoped worker pool, and main() commits by renaming the    *)
(* `.next` manifest over the primary one.                                  *)
(*                                                                         *)
(* Paths are sequences of components (std::path::Component); a component   *)
(* is RootDir, CurDir, ParentDir or a Normal name (a number >= FirstName).  *)
(* The numbering follows the derived order of Component, so comparing the  *)
(* numbers compares the components.                                        *)
(***************************************************************************)
EXTENDS Integers, Sequences, FiniteSets, Bags, TLC

\* ------------------------------------------------------------------ bounds
MaxPrevLines == 2
MaxNextLines == 2
MaxRaceLines == 3
Threads == 2
Retries == 1
MaxRuns == 2

\* -------------------------------------------------------------- components
RootDir == 0
CurDir == 1
ParentDir == 2
FirstName == 3

IsNormal(c) == c >= FirstName

\* ------------------------------------------------------------------- paths
\* The paths of the model: a source `a`, the directory `d` and two files in it.
PA == <<3>>
PD == <<4>>
PDX == <<4, 3>>
PDY == <<4, 4>>

RECURSIVE PathLess(_, _)
PathLess(p, q) ==
    IF q = <<>> THEN FALSE
    ELSE IF p = <<>> THEN TRUE
    ELSE IF Head(p) < Head(q) THEN TRUE
    ELSE IF Head(q) < Head(p) THEN FALSE
    ELSE PathLess(Tail(p), Tail(q))

Last(s) == s[Len(s)]
Front(s) == SubSeq(s, 1, Len(s) - 1)

\* PathBuf::push: an absolute argument replaces the buffer.
push(buf, p) == IF p /= <<>> /\ Head(p) = RootDir THEN p ELSE buf \o p

\* PathBuf::pop: the parent of a lone root is none, so nothing is removed.
pop(buf) ==
    IF buf = <<>> \/ buf = <<RootDir>> THEN buf ELSE Front(buf)

\* Variant: a `..` that follows the root is kept.
RECURSIVE norm_loop_keeps(_, _)
norm_loop_keeps(comps, new_path) ==
    IF comps = <<>> THEN new_path
    ELSE LET c == Head(comps)
             do_pop == IF new_path = <<>> THEN FALSE
                       ELSE IsNormal(Last(new_path))
         IN  IF c = CurDir THEN norm_loop_keeps(Tail(comps), new_path)
             ELSE IF c = ParentDir
                  THEN norm_loop_keeps(Tail(comps),
                                       IF do_pop THEN pop(new_path)
                                       ELSE new_path \o <<ParentDir>>)
             ELSE norm_loop_keeps(Tail(comps), push(new_path, <<c>>))

\* Variant: a `..` that finds nothing to remove is dropped.
RECURSIVE norm_loop_drops(_, _)
norm_loop_drops(comps, new_path) ==
    IF comps = <<>> THEN new_path
    ELSE LET c == Head(comps)
         IN  IF c = CurDir THEN norm_loop_drops(Tail(comps), new_path)
             ELSE IF c = ParentDir
                  THEN norm_loop_drops(Tail(comps),
                                       IF new_path /= <<>>
                                          /\ Last(new_path) /= ParentDir
                                       THEN pop(new_path) ELSE new_path)
             ELSE norm_loop_drops(Tail(comps), push(new_path, <<c>>))

RECURSIVE norm_loop(_, _)
norm_loop(comps, new_path) ==
    IF comps = <<>> THEN new_path
    ELSE LET c == Head(comps)
             do_pop == IF new_path = <<>> THEN FALSE
                       ELSE Last(new_path) = RootDir \/ IsNormal(Last(new_path))
         IN  IF c = CurDir THEN norm_loop(Tail(comps), new_path)
             ELSE IF c = ParentDir
                  THEN norm_loop(Tail(comps),
                                 IF do_pop THEN pop(new_path)
                                 ELSE push(new_path, <<ParentDir>>))
             ELSE norm_loop(Tail(comps), push(new_path, <<c>>))

\* Variant: the first component is taken off and dropped, whatever it is.
norm_skip_first(path) ==
    LET new_path == norm_loop(IF path = <<>> THEN path ELSE Tail(path), <<>>)
    IN  IF new_path = <<>> THEN <<CurDir>> ELSE new_path

norm(path) ==
    LET new_path == norm_loop(path, <<>>)
    IN  IF new_path = <<>> THEN <<CurDir>> ELSE new_path

\* Variant: only a name may come first.
is_sandboxed_names(path) ==
    IF path = <<>> THEN TRUE
    ELSE IsNormal(Head(path))

is_sandboxed(path) ==
    IF path = <<>> THEN TRUE
    ELSE Head(path) = CurDir \/ IsNormal(Head(path))

is_empty(path) == path = <<>>

\* Option<&Path>: <<>> of length 0 is None, <<p>> is Some(p).
\* Variant: the parent whatever its last component is.
removable_parent_any(path) ==
    IF path = <<>> THEN <<>>
    ELSE IF ~IsNormal(Last(path)) THEN <<>>
    ELSE IF Front(path) /= <<>> THEN <<Front(path)>>
    ELSE <<>>

\* Variant: the last component is not looked at.
removable_parent_any_last(path) ==
    IF path = <<>> THEN <<>>
    ELSE LET parent == Front(path)
         IN  IF parent /= <<>> /\ IsNormal(Last(parent)) THEN <<parent>>
             ELSE <<>>

removable_parent(path) ==
    IF path = <<>> THEN <<>>
    ELSE IF ~IsNormal(Last(path)) THEN <<>>
    ELSE LET parent == Front(path)
         IN  IF parent /= <<>> /\ IsNormal(Last(parent)) THEN <<parent>>
             ELSE <<>>

\* ----------------------------------------------------------------- copyop
CopyOp(src, dest) == [src |-> norm(src), dest |-> norm(dest)]

\* #[derive(Ord)] on struct CopyOp { src, dest }
OpLess(a, b) ==
    \/ PathLess(a.src, b.src)
    \/ a.src = b.src /\ PathLess(a.dest, b.dest)

\* ------------------------------------------------------------------- iter
\* Variant: equal heads advance the left side only.
RECURSIVE changes_left_only(_, _)
changes_left_only(a, b) ==
    IF a = <<>> /\ b = <<>> THEN <<>>
    ELSE IF b = <<>> THEN <<<<Head(a), "Removed">>>> \o changes_left_only(Tail(a), b)
    ELSE IF a = <<>> THEN <<<<Head(b), "Added">>>> \o changes_left_only(a, Tail(b))
    ELSE IF PathLess(Head(a), Head(b))
         THEN <<<<Head(a), "Removed">>>> \o changes_left_only(Tail(a), b)
    ELSE IF PathLess(Head(b), Head(a))
         THEN <<<<Head(b), "Added">>>> \o changes_left_only(a, Tail(b))
    ELSE <<<<Head(a), "None">>>> \o changes_left_only(Tail(a), b)

RECURSIVE changes(_, _)
changes(a, b) ==
    IF a = <<>> /\ b = <<>> THEN <<>>
    ELSE IF b = <<>> THEN <<<<Head(a), "Removed">>>> \o changes(Tail(a), b)
    ELSE IF a = <<>> THEN <<<<Head(b), "Added">>>> \o changes(a, Tail(b))
    ELSE IF PathLess(Head(a), Head(b))
         THEN <<<<Head(a), "Removed">>>> \o changes(Tail(a), b)
    ELSE IF PathLess(Head(b), Head(a))
         THEN <<<<Head(b), "Added">>>> \o changes(a, Tail(b))
    ELSE <<<<Head(a), "None">>>> \o changes(Tail(a), Tail(b))

RECURSIVE adjacent_from(_, _, _)
adjacent_from(prev, count, iter) ==
    IF iter /= <<>> /\ Head(iter) = prev
    THEN adjacent_from(prev, count + 1, Tail(iter))
    ELSE <<<<prev, count>>>> \o
         (IF iter = <<>> THEN <<>> ELSE adjacent_from(Head(iter), 1, Tail(iter)))

adjacent(iter) ==
    IF iter = <<>> THEN <<>> ELSE adjacent_from(Head(iter), 1, Tail(iter))

unique(iter) == [i \in 1..Len(adjacent(iter)) |-> adjacent(iter)[i][1]]

\* ---------------------------------------------------------- sequence tools
RECURSIVE SelectChange(_, _)
SelectChange(cs, tag) ==
    IF cs = <<>> THEN <<>>
    ELSE (IF Head(cs)[2] = tag THEN <<Head(cs)[1]>> ELSE <<>>)
         \o SelectChange(Tail(cs), tag)

Range(s) == {s[i] : i \in 1..Len(s)}

RECURSIVE SeqToBag(_)
SeqToBag(s) ==
    IF s = <<>> THEN EmptyBag ELSE SetToBag({Head(s)}) (+) SeqToBag(Tail(s))

RECURSIVE insert_path(_, _)
insert_path(x, s) ==
    IF s = <<>> THEN <<x>>
    ELSE IF PathLess(x, Head(s)) THEN <<x>> \o s
    ELSE <<Head(s)>> \o insert_path(x, Tail(s))

\* slice::sort on paths (stable; equal paths are indistinguishable)
RECURSIVE sort_paths(_)
sort_paths(s) ==
    IF s = <<>> THEN <<>> ELSE insert_path(Last(s), sort_paths(Front(s)))

RECURSIVE insert_op(_, _)
insert_op(x, s) ==
    IF s = <<>> THEN <<x>>
    ELSE IF OpLess(x, Head(s)) THEN <<x>> \o s
    ELSE <<Head(s)>> \o insert_op(x, Tail(s))

\* Variant: the operations stay in the order of the lines.
sort_ops_keep(s) == s

RECURSIVE sort_ops(_)
sort_ops(s) ==
    IF s = <<>> THEN <<>> ELSE insert_op(Last(s), sort_ops(Front(s)))

\* Variant: repeated operations are kept.
dedup_keep(s) == s

\* Vec::dedup: removes consecutive repeated elements.
RECURSIVE dedup(_)
dedup(s) ==
    IF Len(s) <= 1 THEN s
    ELSE IF s[1] = s[2] THEN dedup(Tail(s))
    ELSE <<Head(s)>> \o dedup(Tail(s))

\* --------------------------------------------------------------- manifest
\* A manifest file is a sequence of lines; a line is the sequence of its
\* tab-separated fields, and <<>> stands for a blank or `#` line.
dest_dir == <<>>
sandbox_src == FALSE
sandbox_dest == FALSE

NoManifest == [ok |-> TRUE, operations |-> <<>>, err |-> <<>>]

\* Variant: the destination is never refused.
dest_allowed_any(sb_dest, dest_path) == TRUE

\* `sandbox_dest && !dest_path.is_sandboxed()` is an error.
dest_allowed(sb_dest, dest_path) == ~sb_dest \/ is_sandboxed(dest_path)

\* The destination under dest_dir, normalized again.
rebase(dest_root, dest_path) ==
    IF is_empty(dest_root) THEN dest_path
    ELSE norm(push(push(<<>>, dest_root), dest_path))

RECURSIVE parse_records(_, _, _, _, _, _)
parse_records(lines, i, operations, dest_root, sb_src, sb_dest) ==
    IF i > Len(lines)
    THEN [ok |-> TRUE, operations |-> dedup(sort_ops(operations)), err |-> <<>>]
    ELSE LET line == lines[i]
         IN  IF line = <<>>
             THEN parse_records(lines, i + 1, operations, dest_root, sb_src, sb_dest)
             ELSE IF Len(line) < 2
                  THEN [ok |-> FALSE, operations |-> <<>>,
                        err |-> <<"Missing destination file", i>>]
             ELSE LET src_path == norm(line[1])
                      dest_path == norm(line[2])
                  IN  IF sb_src /\ ~is_sandboxed(src_path)
                      THEN [ok |-> FALSE, operations |-> <<>>,
                            err |-> <<"source not sandboxed", i>>]
                      ELSE IF ~dest_allowed(sb_dest, dest_path)
                      THEN [ok |-> FALSE, operations |-> <<>>,
                            err |-> <<"destination not sandboxed", i>>]
                      ELSE parse_records(lines, i + 1,
                                         Append(operations,
                                                CopyOp(src_path,
                                                       rebase(dest_root, dest_path))),
                                         dest_root, sb_src, sb_dest)

\* The parser with the arguments of the runs of the model.
parse_lines(lines, i, operations) ==
    parse_records(lines, i, operations, dest_dir, sandbox_src, sandbox_dest)

\* Variant: the lines that are skipped are not counted.
parse_reader_uncounted(lines) ==
    parse_lines(SelectSeq(lines, LAMBDA l : l /= <<>>), 1, <<>>)

parse_reader(lines) == parse_lines(lines, 1, <<>>)

\* The text of a line, character by character: "sp" is a space, "tab" a tab,
\* "/" the separator, "#" the comment sign; "a" and "d" are names.
IsSpace(c) == c \in {"sp", "tab"}

RECURSIVE trim_start(_)
trim_start(s) ==
    IF s /= <<>> /\ IsSpace(Head(s)) THEN trim_start(Tail(s)) ELSE s

RECURSIVE trim_end(_)
trim_end(s) ==
    IF s /= <<>> /\ IsSpace(Last(s)) THEN trim_end(Front(s)) ELSE s

\* str::trim
trim(s) == trim_end(trim_start(s))

\* str::split('\t'): always at least one field, empty fields included.
RECURSIVE split_tab(_, _)
split_tab(s, field) ==
    IF s = <<>> THEN <<field>>
    ELSE IF Head(s) = "tab" THEN <<field>> \o split_tab(Tail(s), <<>>)
    ELSE split_tab(Tail(s), Append(field, Head(s)))

\* Path::components on the segments between separators: `.` counts only as
\* the first segment of a relative path, `..` is the parent, empty segments
\* are dropped; "a" and "d" are names.
RECURSIVE path_segments(_, _)
path_segments(segs, first) ==
    IF segs = <<>> THEN <<>>
    ELSE (CASE Head(segs) = "." -> IF first THEN <<CurDir>> ELSE <<>>
            [] Head(segs) = ".." -> <<ParentDir>>
            [] Head(segs) = "d" -> <<Head(PD)>>
            [] OTHER -> <<Head(PA)>>) \o path_segments(Tail(segs), FALSE)

\* Path::new(text).components(): a leading separator is the root.
path_new(text) ==
    LET segs == SelectSeq(text, LAMBDA c : c /= "/")
    IN  IF text /= <<>> /\ Head(text) = "/"
        THEN <<RootDir>> \o path_segments(segs, FALSE)
        ELSE path_segments(segs, TRUE)

\* The text of a PathBuf built by push from components.
RECURSIVE as_text(_)
as_text(path) ==
    IF path = <<>> THEN <<>>
    ELSE LET c == Head(path)
             t == IF c = RootDir THEN "/"
                  ELSE IF c = CurDir THEN "."
                  ELSE IF c = ParentDir THEN ".."
                  ELSE IF c = Head(PD) THEN "d" ELSE "a"
         IN  IF Tail(path) = <<>> THEN <<t>>
             ELSE IF c = RootDir THEN <<t>> \o as_text(Tail(path))
             ELSE <<t, "/">> \o as_text(Tail(path))

\* Blank lines and comments are skipped.
ignored(text) == trim(text) = <<>> \/ Head(trim(text)) = "#"

\* The first two fields of a line of text that is not skipped.
read_line(text) ==
    IF ignored(text) THEN <<>>
    ELSE LET s == split_tab(trim(text), <<>>)
         IN  [k \in 1..(IF Len(s) < 2 THEN Len(s) ELSE 2) |-> path_new(s[k])]

parse_text(texts) == parse_reader([i \in 1..Len(texts) |-> read_line(texts[i])])

srcs(m) == [i \in 1..Len(m) |-> m[i].src]

dests(m) == sort_paths([i \in 1..Len(m) |-> m[i].dest])

\* ------------------------------------------------------------ check_races
\* Variant: only the first overlapping path is reported.
overlap_of_first(next_srcs, next_dests) ==
    LET all == SelectChange(changes(next_srcs, next_dests), "None")
    IN  IF all = <<>> THEN <<>> ELSE <<all[1]>>

overlap_of(next_srcs, next_dests) ==
    SelectChange(changes(next_srcs, next_dests), "None")

RECURSIVE SelectDup(_)
SelectDup(adj) ==
    IF adj = <<>> THEN <<>>
    ELSE (IF Head(adj)[2] > 1 THEN <<Head(adj)>> ELSE <<>>) \o SelectDup(Tail(adj))

\* Variant: a destination counts as duplicated from the third occurrence on.
duplicates_of_gt2(next_dests) ==
    LET adj == adjacent(next_dests)
    IN  SelectSeq(adj, LAMBDA e : e[2] > 2)

duplicates_of(next_dests) == SelectDup(adjacent(next_dests))

Ok(n) == [kind |-> "Ok", items |-> <<>>, count |-> n]
Err(kind, items) == [kind |-> kind, items |-> items, count |-> 0]

\* Variant: the overlap test is left out.
check_races_no_overlap(next_srcs, next_dests) ==
    IF duplicates_of(next_dests) /= <<>>
    THEN Err("Duplicates", duplicates_of(next_dests))
    ELSE Ok(0)

check_races(next_srcs, next_dests) ==
    IF overlap_of(next_srcs, next_dests) /= <<>>
    THEN Err("Overlap", overlap_of(next_srcs, next_dests))
    ELSE IF duplicates_of(next_dests) /= <<>>
    THEN Err("Duplicates", duplicates_of(next_dests))
    ELSE Ok(0)

\* ------------------------------------------------------------- filesystem
\* The file system maps every path of FsPaths to an entry; the metadata of an
\* entry is what is_complete compares. System calls return an errno ("OK" on
\* success). A fault is an errno the platform injects into a call that would
\* otherwise have succeeded (a locked file, a network error); it lasts for
\* the whole retrying call.
FsPaths == {PA, PD, PDX, PDY}

\* An entry is what stat gives for a path (type, length, modification time,
\* read-only flag: a symbolic link is followed) and `ltime`, the
\* modification time lstat gives: that of the link itself when the path is a
\* symbolic link, the same time otherwise.
NoEntry == [ftype |-> "none", len |-> 0, mtime |-> 0, ro |-> FALSE, ltime |-> 0]
DirEntry == [ftype |-> "dir", len |-> 0, mtime |-> 0, ro |-> FALSE, ltime |-> 0]
FileV1 == [ftype |-> "file", len |-> 1, mtime |-> 1, ro |-> FALSE, ltime |-> 1]
FileV2 == [ftype |-> "file", len |-> 1, mtime |-> 2, ro |-> FALSE, ltime |-> 2]
\* A symbolic link to a regular file like FileV1, made after the file.
LinkV1 == [ftype |-> "file", len |-> 1, mtime |-> 1, ro |-> FALSE, ltime |-> 2]

Faults == {"OK", "EACCES", "EIO"}

Kind(errno) ==
    IF errno = "ENOENT" THEN "NotFound"
    ELSE IF errno = "EACCES" THEN "PermissionDenied"
    ELSE "Other"

Lookup(f, p) == IF p \in DOMAIN f THEN f[p] ELSE NoEntry

\* Walks the proper prefixes of p: the first that is no directory decides.
RECURSIVE ResolveFrom(_, _, _)
ResolveFrom(f, p, i) ==
    IF i >= Len(p) THEN "OK"
    ELSE LET e == Lookup(f, SubSeq(p, 1, i))
         IN  IF e.ftype = "none" THEN "ENOENT"
             ELSE IF e.ftype = "file" THEN "ENOTDIR"
             ELSE ResolveFrom(f, p, i + 1)

Resolve(f, p) == ResolveFrom(f, p, 1)

HasChildren(f, p) ==
    \E q \in DOMAIN f :
        /\ Len(q) = Len(p) + 1
        /\ SubSeq(q, 1, Len(p)) = p
        /\ f[q].ftype /= "none"

sys_unlink(f, p, fault) ==
    IF Resolve(f, p) /= "OK" THEN [err |-> Resolve(f, p), fs |-> f]
    ELSE IF Lookup(f, p).ftype = "none" THEN [err |-> "ENOENT", fs |-> f]
    ELSE IF Lookup(f, p).ftype = "dir" THEN [err |-> "EISDIR", fs |-> f]
    ELSE IF fault /= "OK" THEN [err |-> fault, fs |-> f]
    ELSE [err |-> "OK", fs |-> [f EXCEPT ![p] = NoEntry]]

sys_rmdir(f, p, fault) ==
    IF Resolve(f, p) /= "OK" THEN [err |-> Resolve(f, p), fs |-> f]
    ELSE IF Lookup(f, p).ftype = "none" THEN [err |-> "ENOENT", fs |-> f]
    ELSE IF Lookup(f, p).ftype = "file" THEN [err |-> "ENOTDIR", fs |-> f]
    ELSE IF HasChildren(f, p) THEN [err |-> "ENOTEMPTY", fs |-> f]
    ELSE IF fault /= "OK" THEN [err |-> fault, fs |-> f]
    ELSE [err |-> "OK", fs |-> [f EXCEPT ![p] = NoEntry]]

sys_mkdir(f, p, fault) ==
    IF Resolve(f, p) /= "OK" THEN [err |-> Resolve(f, p), fs |-> f]
    ELSE IF Lookup(f, p).ftype /= "none" THEN [err |-> "EEXIST", fs |-> f]
    ELSE IF fault /= "OK" THEN [err |-> fault, fs |-> f]
    ELSE [err |-> "OK", fs |-> [f EXCEPT ![p] = DirEntry]]

sys_stat(f, p, fault) ==
    IF Resolve(f, p) /= "OK" THEN [err |-> Resolve(f, p), meta |-> NoEntry]
    ELSE IF Lookup(f, p).ftype = "none" THEN [err |-> "ENOENT", meta |-> NoEntry]
    ELSE IF fault /= "OK" THEN [err |-> fault, meta |-> NoEntry]
    ELSE [err |-> "OK", meta |-> Lookup(f, p)]

\* fs::copy followed by copy_timestamps: content and permissions of `from`
\* arrive at `to`, a regular file, with the times lstat gives for `from`.
sys_copy(f, from, to, fault) ==
    IF Resolve(f, from) /= "OK" THEN [err |-> Resolve(f, from), fs |-> f]
    ELSE IF Lookup(f, from).ftype = "none" THEN [err |-> "ENOENT", fs |-> f]
    ELSE IF Lookup(f, from).ftype = "dir" THEN [err |-> "EINVAL", fs |-> f]
    ELSE IF Resolve(f, to) /= "OK" THEN [err |-> Resolve(f, to), fs |-> f]
    ELSE IF Lookup(f, to).ftype = "dir" THEN [err |-> "EISDIR", fs |-> f]
    ELSE IF fault /= "OK" THEN [err |-> fault, fs |-> f]
    ELSE LET stat == Lookup(f, from)
         IN  [err |-> "OK",
              fs |-> [f EXCEPT ![to] = [stat EXCEPT !.mtime = stat.ltime]]]

\* ------------------------------------------------------------------- util
remove_dir(f, path, fault) ==
    LET r == sys_rmdir(f, path, fault)
    IN  IF r.err = "OK" \/ r.err = "ENOENT" THEN [err |-> "OK", fs |-> r.fs, val |-> TRUE]
        ELSE IF r.err = "ENOTEMPTY" THEN [err |-> "OK", fs |-> r.fs, val |-> FALSE]
        ELSE [err |-> r.err, fs |-> r.fs, val |-> FALSE]

RECURSIVE remove_dir_retry(_, _, _, _)
remove_dir_retry(f, path, fault, retries) ==
    LET r == remove_dir(f, path, fault)
    IN  IF r.err /= "OK" /\ retries > 0
        THEN remove_dir_retry(r.fs, path, fault, retries - 1)
        ELSE r

RECURSIVE remove_empty_dirs(_, _, _, _)
remove_empty_dirs(f, path, fault, retries) ==
    LET r == remove_dir_retry(f, path, fault, retries)
    IN  IF r.err /= "OK" THEN [err |-> r.err, fs |-> r.fs]
        ELSE IF ~r.val THEN [err |-> "OK", fs |-> r.fs]
        ELSE IF removable_parent(path) /= <<>>
             THEN remove_empty_dirs(r.fs, removable_parent(path)[1], fault, retries)
        ELSE [err |-> "OK", fs |-> r.fs]

\* Variant: a missing target is reported as the error it is.
remove_file_strict(f, path, fault) == sys_unlink(f, path, fault)

remove_file(f, path, fault) ==
    LET r == sys_unlink(f, path, fault)
    IN  IF Kind(r.err) = "NotFound" THEN [err |-> "OK", fs |-> r.fs] ELSE r

RECURSIVE remove_file_retry(_, _, _, _)
remove_file_retry(f, path, fault, retries) ==
    LET r == remove_file(f, path, fault)
    IN  IF r.err /= "OK" /\ retries > 0
        THEN remove_file_retry(r.fs, path, fault, retries - 1)
        ELSE r

\* Variant: the timestamps are not copied, the copy is stamped with a new time.
copy_new_time(f, from, to, fault) ==
    LET r == sys_copy(f, from, to, fault)
    IN  IF r.err /= "OK" THEN r
        ELSE [err |-> "OK", fs |-> [r.fs EXCEPT ![to] = FileV2]]

\* Variant: the destination is created but the content is not written.
copy_empty(f, from, to, fault) ==
    LET r == sys_copy(f, from, to, fault)
    IN  IF r.err /= "OK" THEN r
        ELSE [err |-> "OK", fs |-> [r.fs EXCEPT ![to].len = 0]]

copy(f, from, to, fault) == sys_copy(f, from, to, fault)

RECURSIVE copy_retry(_, _, _, _, _)
copy_retry(f, from, to, fault, retries) ==
    LET r == copy(f, from, to, fault)
    IN  IF r.err = "OK" THEN r
        ELSE IF Kind(r.err) \in {"NotFound", "PermissionDenied"} THEN r
        ELSE IF retries > 0 THEN copy_retry(r.fs, from, to, fault, retries - 1)
        ELSE r

RECURSIVE metadata_retry(_, _, _, _)
metadata_retry(f, path, fault, retries) ==
    LET r == sys_stat(f, path, fault)
    IN  IF r.err = "OK" THEN r
        ELSE IF Kind(r.err) \in {"NotFound", "PermissionDenied"} THEN r
        ELSE IF retries > 0 THEN metadata_retry(f, path, fault, retries - 1)
        ELSE r

\* std::fs::create_dir_all (DirBuilder::create_dir_all)
RECURSIVE create_dir_all(_, _, _)
create_dir_all(f, path, fault) ==
    IF path = <<>> THEN [err |-> "OK", fs |-> f]
    ELSE LET r == sys_mkdir(f, path, fault)
             is_dir(g) == Resolve(g, path) = "OK" /\ Lookup(g, path).ftype = "dir"
         IN  IF r.err = "OK" THEN r
             ELSE IF Kind(r.err) = "NotFound"
                  THEN LET up == create_dir_all(f, Front(path), fault)
                           again == sys_mkdir(up.fs, path, fault)
                       IN  IF up.err /= "OK" THEN up
                           ELSE IF again.err = "OK" \/ is_dir(again.fs)
                                THEN [err |-> "OK", fs |-> again.fs]
                           ELSE again
             ELSE IF is_dir(f) THEN [err |-> "OK", fs |-> f]
             ELSE r

\* Variant: a failed stat of the destination is an error, like that of the source.
is_complete_dest_err(f, op, fault, fault_dest, retries) ==
    LET a == metadata_retry(f, op.src, fault, retries)
        b == metadata_retry(f, op.dest, fault_dest, retries)
    IN  IF a.err /= "OK" THEN [err |-> a.err, val |-> FALSE]
        ELSE IF b.err /= "OK" THEN [err |-> b.err, val |-> FALSE]
        ELSE [err |-> "OK", val |-> a.meta = b.meta]

\* Variant: the modification time is not compared.
is_complete_no_mtime(f, op, fault, fault_dest, retries) ==
    LET a == metadata_retry(f, op.src, fault, retries)
        b == metadata_retry(f, op.dest, fault_dest, retries)
    IN  IF a.err /= "OK" THEN [err |-> a.err, val |-> FALSE]
        ELSE IF b.err /= "OK" THEN [err |-> "OK", val |-> FALSE]
        ELSE [err |-> "OK",
              val |-> /\ a.meta.len = b.meta.len
                      /\ a.meta.ftype = b.meta.ftype
                      /\ a.meta.ro = b.meta.ro]

\* Variant: the read-only flag is not compared.
is_complete_no_ro(f, op, fault, fault_dest, retries) ==
    LET a == metadata_retry(f, op.src, fault, retries)
        b == metadata_retry(f, op.dest, fault_dest, retries)
    IN  IF a.err /= "OK" THEN [err |-> a.err, val |-> FALSE]
        ELSE IF b.err /= "OK" THEN [err |-> "OK", val |-> FALSE]
        ELSE [err |-> "OK",
              val |-> /\ a.meta.len = b.meta.len
                      /\ a.meta.ftype = b.meta.ftype
                      /\ a.meta.mtime = b.meta.mtime]

\* CopyOp::is_complete: one fault for the stat of the source, one for that of
\* the destination.
is_complete(f, op, fault, fault_dest, retries) ==
    LET a == metadata_retry(f, op.src, fault, retries)
        b == metadata_retry(f, op.dest, fault_dest, retries)
    IN  IF a.err /= "OK" THEN [err |-> a.err, val |-> FALSE]
        ELSE IF b.err /= "OK" THEN [err |-> "OK", val |-> FALSE]
        ELSE IF a.meta.len /= b.meta.len THEN [err |-> "OK", val |-> FALSE]
        ELSE IF a.meta.ftype /= b.meta.ftype THEN [err |-> "OK", val |-> FALSE]
        ELSE IF a.meta.mtime /= b.meta.mtime THEN [err |-> "OK", val |-> FALSE]
        ELSE IF a.meta.ro /= b.meta.ro THEN [err |-> "OK", val |-> FALSE]
        ELSE [err |-> "OK", val |-> TRUE]

\* ------------------------------------------------------------------ state
VARIABLES
    pc,          \* position of main()/sync()
    dryrun, force, sanity,      \* Args
    prevFile, nextFile,         \* the primary manifest file and its `.next`
    prev, next,                 \* the parsed manifests (operations)
    fs,                         \* the file system
    to_delete, dirs, idx,       \* sync: work lists of phases 2 and 4
    outdated, found,            \* sync: result of phase 3, accumulator of outdated()
    failed, nrecv,              \* the orchestrator's accumulator of a phase
    jobs, running, chan,        \* pool queue, tasks on workers, sync_channel
    result, code,               \* what sync returned, the exit status
    fs0, prevFile0, nextFile0,  \* history: the state when the run began
    attempts,                   \* history: every file-system call made per item
    faulted, renamed,           \* history: a fault was injected; rename happened
    run, last,                  \* number of the run, outcome of the run before
    rt                          \* one function of the program taken alone

vars == <<pc, dryrun, force, sanity, prevFile, nextFile, prev, next, fs,
          to_delete, dirs, idx, outdated, found, failed, nrecv, jobs, running,
          chan, result, code, fs0, prevFile0, nextFile0, attempts, faulted,
          renamed, run, last, rt>>

args == <<dryrun, force, sanity>>
files == <<prevFile, nextFile>>
manifests == <<prev, next>>
lists == <<to_delete, dirs, idx, outdated, found>>
acc == <<failed, nrecv>>
pool == <<jobs, running, chan>>
hist == <<fs0, prevFile0, nextFile0, renamed, run, last, rt>>

ChanCap == 32

\* No retrying call is looked at on its own.
NoCall == [fn |-> "none", retries0 |-> 0, delay0 |-> 0, retries |-> 0,
           delay |-> 0, calls |-> 0, errs |-> <<>>, sleeps |-> <<>>,
           ret |-> "none", round |-> 0, prior |-> "none", before |-> <<>>]

NoResult == [kind |-> "None", items |-> <<>>, count |-> 0]
NoLast == [result |-> NoResult, dryrun |-> FALSE, faulted |-> FALSE,
           fs0 |-> [p \in FsPaths |-> NoEntry]]
NoFile == [exists |-> FALSE, lines |-> <<>>]
File(lines) == [exists |-> TRUE, lines |-> lines]

Seqs(S, n) == UNION {[1..k -> S] : k \in 0..n}

\* ------------------------------------------------------------------ inputs
LineAX == <<PA, PDX>>
LineAY == <<PA, PDY>>
LineXY == <<PDX, PDY>>
LineXX == <<PDX, PDX>>
LineAD == <<PA, PD>>
LineBad == <<PA>>

PrevLines == {LineAD, LineAX, LineAY, LineXX, LineBad}
NextLines == {LineAX, LineAY, LineXY, LineXX, LineBad}

FsStates ==
    {f \in [FsPaths -> {NoEntry, DirEntry, FileV1, FileV2, LinkV1}] :
        /\ f[PA] \in {NoEntry, FileV1, LinkV1}
        /\ f[PD] \in {NoEntry, DirEntry, FileV1}
        /\ f[PDX].ftype /= "dir" /\ f[PDY].ftype /= "dir"
        /\ f[PDX] /= LinkV1 /\ f[PDY] /= LinkV1
        /\ f[PD] /= DirEntry => f[PDX] = NoEntry /\ f[PDY] = NoEntry}

InitRun ==
    /\ pc = "parse_prev"
    /\ prev = <<>> /\ next = <<>>
    /\ to_delete = <<>> /\ dirs = <<>> /\ idx = 0
    /\ outdated = <<>> /\ found = <<>>
    /\ failed = <<>> /\ nrecv = 0
    /\ jobs = <<>> /\ running = {} /\ chan = <<>>
    /\ result = NoResult /\ code = 0
    /\ fs0 = fs /\ prevFile0 = prevFile /\ nextFile0 = nextFile
    /\ attempts = {} /\ faulted = FALSE /\ renamed = FALSE
    /\ run = 1 /\ last = NoLast /\ rt = NoCall

\* A line is less than another as a record: by source, then by destination;
\* a line without destination comes after every record.
LineLess(a, b) ==
    IF Len(a) < 2 THEN FALSE
    ELSE IF Len(b) < 2 THEN TRUE
    ELSE OpLess([src |-> a[1], dest |-> a[2]], [src |-> b[1], dest |-> b[2]])

\* The files a generator writes that lists each record once, in ascending
\* order, with at most n lines out of S. (ParseRaces below feeds parse_reader
\* with lines in any order and with repetitions.)
Listings(S, n) ==
    {l \in Seqs(S, n) : \A i \in 1..(Len(l) - 1) : LineLess(l[i], l[i + 1])}

Init ==
    /\ dryrun \in BOOLEAN /\ force \in BOOLEAN /\ sanity \in BOOLEAN
    /\ prevFile \in {NoFile} \cup {File(l) : l \in Listings(PrevLines, MaxPrevLines)}
    /\ nextFile \in {File(l) : l \in Listings(NextLines, MaxNextLines)}
    /\ fs \in FsStates
    /\ InitRun

\* ------------------------------------------------------------------- main
\* main: the previous manifest; a file that cannot be opened is an empty one.
ParsePrev ==
    /\ pc = "parse_prev"
    /\ LET m == IF prevFile.exists THEN parse_reader(prevFile.lines) ELSE NoManifest
       IN  IF m.ok
           THEN prev' = m.operations /\ pc' = "parse_next" /\ code' = code
           ELSE prev' = prev /\ pc' = "exit" /\ code' = 1
    /\ UNCHANGED <<args, files, next, fs, lists, acc, pool, result, hist,
                   attempts, faulted>>

ParseNext ==
    /\ pc = "parse_next"
    /\ LET m == IF nextFile.exists THEN parse_reader(nextFile.lines)
                ELSE [ok |-> FALSE, operations |-> <<>>, err |-> <<"open", 0>>]
       IN  IF m.ok
           THEN next' = m.operations /\ pc' = "races" /\ code' = code
           ELSE next' = next /\ pc' = "exit" /\ code' = 1
    /\ UNCHANGED <<args, files, prev, fs, lists, acc, pool, result, hist,
                   attempts, faulted>>

\* ------------------------------------------------------------ sync: tools
Return(r) == result' = r /\ pc' = "ret"

Task(phase, i, item) == [phase |-> phase, idx |-> i, item |-> item]
Tasks(phase, items) == [i \in 1..Len(items) |-> Task(phase, i, items[i])]
\* What is remembered of the call made for an item: its error ("OK" if none)
\* and, for is_complete, the boolean it returned.
Attempt(phase, i, item, err) ==
    [phase |-> phase, idx |-> i, item |-> item, err |-> err, val |-> err = "OK"]
StatAttempt(phase, i, item, r) ==
    [phase |-> phase, idx |-> i, item |-> item, err |-> r.err, val |-> r.val]

\* Variant: the closure takes one result less and the scope is not joined.
ScopedDoneEarly(n) == nrecv >= n - 1

\* pool.scoped(...): the closure has taken `n` results and the scope is joined.
ScopedDone(n) == nrecv = n /\ jobs = <<>> /\ running = {}

RECURSIVE filter_parents(_)
filter_parents(paths) ==
    IF paths = <<>> THEN <<>>
    ELSE removable_parent(Head(paths)) \o filter_parents(Tail(paths))

dest_of(ops) == [i \in 1..Len(ops) |-> ops[i].dest]

\* sync, phase 2: the parents of the deleted files.
parent_dirs(deleted) == unique(filter_parents(deleted))

\* sync, phase 4: the parents of the outdated destinations.
create_dirs(ops) == unique(sort_paths(filter_parents(dest_of(ops))))

\* ----------------------------------------------------------- sync: phases
\* 1. race check, and the list of destinations to delete.
CheckRaces ==
    /\ pc = "races"
    /\ LET r == check_races(srcs(next), dests(next))
       IN  IF r.kind /= "Ok"
           THEN Return(r) /\ to_delete' = to_delete
           ELSE /\ to_delete' = SelectChange(changes(dests(prev), dests(next)), "Removed")
                /\ pc' = "delete" /\ result' = result
    /\ UNCHANGED <<args, files, manifests, fs, dirs, idx, outdated, found, acc,
                   pool, code, hist, attempts, faulted>>

\* 2a. dry run: the deletions are only logged.
DeleteDry ==
    /\ pc = "delete" /\ dryrun
    /\ pc' = "rmdirs" /\ dirs' = parent_dirs(to_delete) /\ idx' = 1
    /\ UNCHANGED <<args, files, manifests, fs, to_delete, outdated, found, acc,
                   pool, result, code, hist, attempts, faulted>>

DeleteSubmit ==
    /\ pc = "delete" /\ ~dryrun
    /\ jobs' = jobs \o Tasks("delete", to_delete)
    /\ pc' = "delete_wait"
    /\ UNCHANGED <<args, files, manifests, fs, lists, acc, running, chan,
                   result, code, hist, attempts, faulted>>

\* A pool worker takes the next job of the queue.
WorkerTake ==
    /\ jobs /= <<>> /\ Cardinality(running) < Threads
    /\ running' = running \cup {Head(jobs)} /\ jobs' = Tail(jobs)
    /\ UNCHANGED <<pc, args, files, manifests, fs, lists, acc, chan, result,
                   code, hist, attempts, faulted>>

\* The worker closure of phase 2: remove_file_retry, then send.
WorkerDelete ==
    \E t \in running, fault \in Faults :
        /\ t.phase = "delete" /\ Len(chan) < ChanCap
        /\ LET r == remove_file_retry(fs, t.item, fault, Retries)
           IN  /\ fs' = r.fs
               /\ chan' = Append(chan, <<t, r.err>>)
               /\ attempts' = attempts \cup {Attempt(t.phase, t.idx, t.item, r.err)}
               /\ faulted' = (faulted \/ (r.err = fault /\ fault /= "OK"))
        /\ running' = running \ {t}
        /\ UNCHANGED <<pc, args, files, manifests, lists, acc, jobs, result,
                       code, hist>>

DeleteRecv ==
    /\ pc = "delete_wait" /\ nrecv < Len(to_delete) /\ chan /= <<>>
    /\ nrecv' = nrecv + 1 /\ chan' = Tail(chan)
    /\ failed' = IF Head(chan)[2] /= "OK"
                 THEN Append(failed, <<Head(chan)[1].item, Head(chan)[2]>>)
                 ELSE failed
    /\ UNCHANGED <<pc, args, files, manifests, fs, lists, jobs, running, result,
                   code, hist, attempts, faulted>>

\* Variant: the failures of the deletions are dropped and sync goes on.
DeleteDoneIgnores ==
    /\ pc = "delete_wait" /\ ScopedDone(Len(to_delete))
    /\ pc' = "rmdirs" /\ dirs' = parent_dirs(to_delete) /\ idx' = 1
    /\ failed' = <<>> /\ nrecv' = 0
    /\ UNCHANGED <<args, files, manifests, fs, to_delete, outdated, found, pool,
                   result, code, hist, attempts, faulted>>

DeleteDone ==
    /\ pc = "delete_wait" /\ ScopedDone(Len(to_delete))
    /\ IF failed /= <<>>
       THEN Return(Err("Delete", failed)) /\ dirs' = dirs /\ idx' = idx
       ELSE pc' = "rmdirs" /\ dirs' = parent_dirs(to_delete) /\ idx' = 1
                           /\ result' = result
    /\ failed' = <<>> /\ nrecv' = 0
    /\ UNCHANGED <<args, files, manifests, fs, to_delete, outdated, found, pool,
                   code, hist, attempts, faulted>>

\* 2b. one turn of the loop over the parent directories.
RemoveDirsStep ==
    /\ pc = "rmdirs" /\ idx <= Len(dirs)
    /\ IF dryrun
       THEN UNCHANGED <<fs, failed, attempts, faulted>>
       ELSE \E fault \in Faults :
              LET r == remove_empty_dirs(fs, dirs[idx], fault, Retries)
              IN  /\ fs' = r.fs
                  /\ failed' = IF r.err /= "OK"
                               THEN Append(failed, <<dirs[idx], r.err>>) ELSE failed
                  /\ attempts' = attempts \cup {Attempt("rmdirs", idx, dirs[idx], r.err)}
                  /\ faulted' = (faulted \/ (r.err = fault /\ fault /= "OK"))
    /\ idx' = idx + 1
    /\ UNCHANGED <<pc, args, files, manifests, to_delete, dirs, outdated, found,
                   nrecv, pool, result, code, hist>>

RemoveDirsDone ==
    /\ pc = "rmdirs" /\ idx > Len(dirs)
    /\ IF failed /= <<>>
       THEN Return(Err("DeleteDirs", failed))
       ELSE pc' = "outdated" /\ result' = result
    /\ failed' = <<>> /\ dirs' = <<>> /\ idx' = 0
    /\ UNCHANGED <<args, files, manifests, fs, to_delete, outdated, found, nrecv,
                   pool, code, hist, attempts, faulted>>

\* Variant: force is ignored, every operation is stat'ed.
OutdatedNoForce ==
    /\ pc = "outdated"
    /\ jobs' = jobs \o Tasks("outdated", next) /\ pc' = "outdated_wait"
    /\ UNCHANGED <<outdated, dirs, idx>>
    /\ UNCHANGED <<args, files, manifests, fs, to_delete, found, acc, running,
                   chan, result, code, hist, attempts, faulted>>

\* 3. Manifest::outdated: with force every operation, else one stat task each.
Outdated ==
    /\ pc = "outdated"
    /\ IF force
       THEN /\ outdated' = next /\ pc' = "mkdirs"
            /\ dirs' = create_dirs(next) /\ idx' = 1 /\ jobs' = jobs
       ELSE /\ jobs' = jobs \o Tasks("outdated", next) /\ pc' = "outdated_wait"
            /\ UNCHANGED <<outdated, dirs, idx>>
    /\ UNCHANGED <<args, files, manifests, fs, to_delete, found, acc, running,
                   chan, result, code, hist, attempts, faulted>>

\* The worker closure of outdated(): is_complete, then send.
WorkerStat ==
    \E t \in running, fault \in Faults, fault_dest \in Faults :
        /\ t.phase \in {"outdated", "verify"} /\ Len(chan) < ChanCap
        /\ LET r == is_complete(fs, t.item, fault, fault_dest, Retries)
               b == sys_stat(fs, t.item.dest, fault_dest)
           IN  /\ chan' = Append(chan, <<t, r>>)
               /\ attempts' = attempts \cup {StatAttempt(t.phase, t.idx, t.item, r)}
               /\ faulted' = (\/ faulted
                              \/ (r.err = fault /\ fault /= "OK")
                              \/ (r.err = "OK" /\ b.err = fault_dest
                                             /\ fault_dest /= "OK"))
        /\ running' = running \ {t}
        /\ UNCHANGED <<pc, args, files, manifests, fs, lists, acc, jobs, result,
                       code, hist>>

\* Variant: the complete operations are collected as well.
OutdatedRecvAll ==
    /\ pc \in {"outdated_wait", "verify_wait"}
    /\ nrecv < Len(next) /\ chan /= <<>>
    /\ nrecv' = nrecv + 1 /\ chan' = Tail(chan)
    /\ LET op == Head(chan)[1].item
           complete == Head(chan)[2]
       IN  IF complete.err /= "OK"
           THEN failed' = Append(failed, <<op, complete.err>>) /\ found' = found
           ELSE found' = Append(found, op) /\ failed' = failed
    /\ UNCHANGED <<pc, args, files, manifests, fs, to_delete, dirs, idx, outdated,
                   jobs, running, result, code, hist, attempts, faulted>>

OutdatedRecv ==
    /\ pc \in {"outdated_wait", "verify_wait"}
    /\ nrecv < Len(next) /\ chan /= <<>>
    /\ nrecv' = nrecv + 1 /\ chan' = Tail(chan)
    /\ LET op == Head(chan)[1].item
           complete == Head(chan)[2]
       IN  IF complete.err /= "OK"
           THEN failed' = Append(failed, <<op, complete.err>>) /\ found' = found
           ELSE IF ~complete.val
           THEN found' = Append(found, op) /\ failed' = failed
           ELSE UNCHANGED <<found, failed>>
    /\ UNCHANGED <<pc, args, files, manifests, fs, to_delete, dirs, idx, outdated,
                   jobs, running, result, code, hist, attempts, faulted>>

OutdatedDone ==
    /\ pc = "outdated_wait" /\ ScopedDone(Len(next))
    /\ IF failed /= <<>>
       THEN Return(Err("MissingSrcs", failed)) /\ UNCHANGED <<outdated, dirs, idx>>
       ELSE /\ outdated' = found /\ pc' = "mkdirs" /\ result' = result
            /\ dirs' = create_dirs(found) /\ idx' = 1
    /\ failed' = <<>> /\ nrecv' = 0 /\ found' = <<>>
    /\ UNCHANGED <<args, files, manifests, fs, to_delete, pool, code, hist,
                   attempts, faulted>>

\* 4. one turn of the loop creating the parent directories.
CreateDirsStep ==
    /\ pc = "mkdirs" /\ idx <= Len(dirs)
    /\ IF dryrun
       THEN UNCHANGED <<fs, failed, attempts, faulted>>
       ELSE \E fault \in Faults :
              LET r == create_dir_all(fs, dirs[idx], fault)
              IN  /\ fs' = r.fs
                  /\ failed' = IF r.err /= "OK"
                               THEN Append(failed, <<dirs[idx], r.err>>) ELSE failed
                  /\ attempts' = attempts \cup {Attempt("mkdirs", idx, dirs[idx], r.err)}
                  /\ faulted' = (faulted \/ (r.err = fault /\ fault /= "OK"))
    /\ idx' = idx + 1
    /\ UNCHANGED <<pc, args, files, manifests, to_delete, dirs, outdated, found,
                   nrecv, pool, result, code, hist>>

CreateDirsDone ==
    /\ pc = "mkdirs" /\ idx > Len(dirs)
    /\ IF failed /= <<>>
       THEN Return(Err("CreateDirs", failed))
       ELSE pc' = "copy" /\ result' = result
    /\ failed' = <<>> /\ dirs' = <<>> /\ idx' = 0
    /\ UNCHANGED <<args, files, manifests, fs, to_delete, outdated, found, nrecv,
                   pool, code, hist, attempts, faulted>>

\* Variant: a dry run submits the copies all the same.
CopyDryRuns ==
    /\ pc = "copy" /\ dryrun
    /\ jobs' = jobs \o Tasks("copy", outdated)
    /\ pc' = "copy_wait"
    /\ UNCHANGED <<args, files, manifests, fs, lists, acc, running, chan,
                   result, code, hist, attempts, faulted>>

\* 5. dry run: the copies are only logged.
CopyDry ==
    /\ pc = "copy" /\ dryrun
    /\ pc' = "verify"
    /\ UNCHANGED <<args, files, manifests, fs, lists, acc, pool, result, code,
                   hist, attempts, faulted>>

\* Variant: every operation of next is submitted, outdated or not.
CopySubmitAll ==
    /\ pc = "copy" /\ ~dryrun
    /\ jobs' = jobs \o Tasks("copy", next)
    /\ pc' = "copy_wait"
    /\ UNCHANGED <<args, files, manifests, fs, lists, acc, running, chan,
                   result, code, hist, attempts, faulted>>

CopySubmit ==
    /\ pc = "copy" /\ ~dryrun
    /\ jobs' = jobs \o Tasks("copy", outdated)
    /\ pc' = "copy_wait"
    /\ UNCHANGED <<args, files, manifests, fs, lists, acc, running, chan,
                   result, code, hist, attempts, faulted>>

\* The worker closure of phase 5: op.copy (copy_retry), then send.
WorkerCopy ==
    \E t \in running, fault \in Faults :
        /\ t.phase = "copy" /\ Len(chan) < ChanCap
        /\ LET r == copy_retry(fs, t.item.src, t.item.dest, fault, Retries)
           IN  /\ fs' = r.fs
               /\ chan' = Append(chan, <<t, r.err>>)
               /\ attempts' = attempts \cup {Attempt(t.phase, t.idx, t.item, r.err)}
               /\ faulted' = (faulted \/ (r.err = fault /\ fault /= "OK"))
        /\ running' = running \ {t}
        /\ UNCHANGED <<pc, args, files, manifests, lists, acc, jobs, result,
                       code, hist>>

\* Variant: a failure replaces the failures collected so far.
CopyRecvKeepsLast ==
    /\ pc = "copy_wait" /\ nrecv < Len(outdated) /\ chan /= <<>>
    /\ nrecv' = nrecv + 1 /\ chan' = Tail(chan)
    /\ failed' = IF Head(chan)[2] /= "OK"
                 THEN << <<Head(chan)[1].item, Head(chan)[2]>> >>
                 ELSE failed
    /\ UNCHANGED <<pc, args, files, manifests, fs, lists, jobs, running, result,
                   code, hist, attempts, faulted>>

CopyRecv ==
    /\ pc = "copy_wait" /\ nrecv < Len(outdated) /\ chan /= <<>>
    /\ nrecv' = nrecv + 1 /\ chan' = Tail(chan)
    /\ failed' = IF Head(chan)[2] /= "OK"
                 THEN Append(failed, <<Head(chan)[1].item, Head(chan)[2]>>)
                 ELSE failed
    /\ UNCHANGED <<pc, args, files, manifests, fs, lists, jobs, running, result,
                   code, hist, attempts, faulted>>

CopyDone ==
    /\ pc = "copy_wait" /\ ScopedDone(Len(outdated))
    /\ IF failed /= <<>>
       THEN Return(Err("Copy", failed))
       ELSE pc' = "verify" /\ result' = result
    /\ failed' = <<>> /\ nrecv' = 0
    /\ UNCHANGED <<args, files, manifests, fs, lists, pool, code, hist,
                   attempts, faulted>>

\* 6. the sanity check: outdated(false) once more.
VerifySubmit ==
    /\ pc = "verify" /\ sanity /\ ~dryrun
    /\ jobs' = jobs \o Tasks("verify", next)
    /\ pc' = "verify_wait"
    /\ UNCHANGED <<args, files, manifests, fs, lists, acc, running, chan,
                   result, code, hist, attempts, faulted>>

\* Variant: the operations still outdated are looked at before the errors.
VerifyDoneOutdatedFirst ==
    /\ pc = "verify_wait" /\ ScopedDone(Len(next))
    /\ IF found /= <<>> THEN Return(Err("SanityNotCopied", found))
       ELSE IF failed /= <<>> THEN Return(Err("SanityErrors", failed))
       ELSE Return(Ok(Len(outdated)))
    /\ failed' = <<>> /\ nrecv' = 0 /\ found' = <<>>
    /\ UNCHANGED <<args, files, manifests, fs, to_delete, dirs, idx, outdated,
                   pool, code, hist, attempts, faulted>>

VerifyDone ==
    /\ pc = "verify_wait" /\ ScopedDone(Len(next))
    /\ IF failed /= <<>> THEN Return(Err("SanityErrors", failed))
       ELSE IF found /= <<>> THEN Return(Err("SanityNotCopied", found))
       ELSE Return(Ok(Len(outdated)))
    /\ failed' = <<>> /\ nrecv' = 0 /\ found' = <<>>
    /\ UNCHANGED <<args, files, manifests, fs, to_delete, dirs, idx, outdated,
                   pool, code, hist, attempts, faulted>>

\* Variant: the size of the manifest is returned.
SyncOkManifestSize ==
    /\ pc = "verify" /\ ~(sanity /\ ~dryrun)
    /\ Return(Ok(Len(next)))
    /\ UNCHANGED <<args, files, manifests, fs, lists, acc, pool, code, hist,
                   attempts, faulted>>

SyncOk ==
    /\ pc = "verify" /\ ~(sanity /\ ~dryrun)
    /\ Return(Ok(Len(outdated)))
    /\ UNCHANGED <<args, files, manifests, fs, lists, acc, pool, code, hist,
                   attempts, faulted>>

\* ------------------------------------------------------- main: after sync
\* Variant: main forgets to exit on a sync error and renames the manifest.
ExitFailureRenames ==
    /\ pc = "ret" /\ result.kind /= "Ok"
    /\ prevFile' = nextFile /\ nextFile' = NoFile /\ renamed' = TRUE
    /\ pc' = "exit" /\ code' = 0
    /\ UNCHANGED <<args, manifests, fs, lists, acc, pool, result, fs0, prevFile0,
                   nextFile0, run, last, rt, attempts, faulted>>

ExitFailure ==
    /\ pc = "ret" /\ result.kind /= "Ok"
    /\ pc' = "exit" /\ code' = 1
    /\ UNCHANGED <<args, files, manifests, fs, lists, acc, pool, result, hist,
                   attempts, faulted>>

ExitDryRun ==
    /\ pc = "ret" /\ result.kind = "Ok" /\ dryrun
    /\ pc' = "exit" /\ code' = 0
    /\ UNCHANGED <<args, files, manifests, fs, lists, acc, pool, result, hist,
                   attempts, faulted>>

\* fs::rename(path_next, path_prev), which the platform may refuse.
Rename ==
    /\ pc = "ret" /\ result.kind = "Ok" /\ ~dryrun
    /\ \E ok \in BOOLEAN :
         IF ok
         THEN /\ prevFile' = nextFile /\ nextFile' = NoFile
              /\ renamed' = TRUE /\ code' = 0
         ELSE UNCHANGED <<prevFile, nextFile, renamed>> /\ code' = 1
    /\ pc' = "exit"
    /\ UNCHANGED <<args, manifests, fs, lists, acc, pool, result, fs0, prevFile0,
                   nextFile0, run, last, rt, attempts, faulted>>

Workers == WorkerTake \/ WorkerDelete \/ WorkerStat \/ WorkerCopy

Main == ParsePrev \/ ParseNext \/ ExitFailure \/ ExitDryRun \/ Rename

Phases ==
    \/ CheckRaces
    \/ DeleteDry \/ DeleteSubmit \/ DeleteRecv \/ DeleteDone
    \/ RemoveDirsStep \/ RemoveDirsDone
    \/ Outdated \/ OutdatedRecv \/ OutdatedDone
    \/ CreateDirsStep \/ CreateDirsDone
    \/ CopyDry \/ CopySubmit \/ CopyRecv \/ CopyDone
    \/ SyncOk

Verify == VerifySubmit \/ VerifyDone

Next == Main \/ Phases \/ Verify \/ Workers

Spec == Init /\ [][Next]_vars

\* ------------------------------------------------- parse and race check only
\* The lines of any generator: in any order, repeated, blank, with a path
\* that is not yet normalized (`./a`).
PDotA == <<1, 3>>
RacePaths == {PA, PDX, PDY, PDotA}
RaceLines == {<<>>} \cup {<<s, d>> : s \in RacePaths, d \in RacePaths}

InitRaces ==
    /\ dryrun = FALSE /\ force = FALSE /\ sanity = FALSE
    /\ prevFile = NoFile
    /\ nextFile \in {File(l) : l \in Seqs(RaceLines, MaxRaceLines)}
    /\ fs = [p \in FsPaths |-> NoEntry]
    /\ InitRun

NextRaces == ParsePrev \/ ParseNext \/ CheckRaces

SpecRaces == InitRaces /\ [][NextRaces]_vars

\* ------------------------------------------------------------ a second run
\* The program is started again, with the same arguments and without
\* --dryrun; the generator writes the same `.next` file again.
Rerun ==
    /\ pc = "exit" /\ run < MaxRuns
    /\ run' = run + 1
    /\ last' = [result |-> result, dryrun |-> dryrun, faulted |-> faulted,
                fs0 |-> fs0]
    /\ dryrun' = FALSE /\ UNCHANGED <<force, sanity>>
    /\ nextFile' = nextFile0 /\ prevFile' = prevFile
    /\ pc' = "parse_prev"
    /\ prev' = <<>> /\ next' = <<>>
    /\ to_delete' = <<>> /\ dirs' = <<>> /\ idx' = 0
    /\ outdated' = <<>> /\ found' = <<>>
    /\ failed' = <<>> /\ nrecv' = 0
    /\ UNCHANGED <<fs, pool>>
    /\ result' = NoResult /\ code' = 0
    /\ fs0' = fs /\ prevFile0' = prevFile /\ nextFile0' = nextFile0
    /\ attempts' = {} /\ faulted' = FALSE /\ renamed' = FALSE
    /\ rt' = rt

\* Runs without --verify-copy that get as far as sync: both manifests parse.
InitRerun ==
    /\ Init
    /\ sanity = FALSE
    /\ LineBad \notin Range(prevFile.lines) \cup Range(nextFile.lines)
    /\ \A p \in FsPaths : fs[p] /= FileV2

NextRerun == Main \/ Phases \/ Workers \/ Rerun

SpecRerun == InitRerun /\ [][NextRerun]_vars

\* ------------------------------------------- a run that is cut short
\* The process is killed, at any point of the first run. A copy that a
\* worker was in the middle of may leave its destination written but not
\* yet stamped with the times of the source.
Killed == [kind |-> "Killed", items |-> <<>>, count |-> 0]

Torn(f, S) ==
    [p \in DOMAIN f |-> IF \E t \in S : t.item.dest = p THEN FileV2 ELSE f[p]]

Terminate ==
    /\ run = 1 /\ pc /= "exit" /\ ~dryrun
    /\ \E S \in SUBSET {t \in running : /\ t.phase = "copy"
                                        /\ copy(fs, t.item.src, t.item.dest, "OK").err = "OK"} :
           fs' = Torn(fs, S)
    /\ pc' = "exit" /\ result' = Killed /\ code' = 1
    /\ jobs' = <<>> /\ running' = {} /\ chan' = <<>>
    /\ UNCHANGED <<args, files, manifests, lists, acc, hist, attempts, faulted>>

NextResume == Main \/ Phases \/ Workers \/ Rerun \/ Terminate

SpecResume == InitRerun /\ [][NextResume]_vars

\* sync from start to end when no call is disturbed, one item after the
\* other: the file system it leaves, and whether it returned Ok.
RECURSIVE DeleteAll(_, _)
DeleteAll(f, paths) ==
    IF paths = <<>> THEN [ok |-> TRUE, fs |-> f]
    ELSE LET r == remove_file_retry(f, Head(paths), "OK", 0)
         IN  IF r.err /= "OK" THEN [ok |-> FALSE, fs |-> r.fs]
             ELSE DeleteAll(r.fs, Tail(paths))

RECURSIVE RemoveDirsAll(_, _)
RemoveDirsAll(f, paths) ==
    IF paths = <<>> THEN [ok |-> TRUE, fs |-> f]
    ELSE LET r == remove_empty_dirs(f, Head(paths), "OK", 0)
         IN  IF r.err /= "OK" THEN [ok |-> FALSE, fs |-> r.fs]
             ELSE RemoveDirsAll(r.fs, Tail(paths))

RECURSIVE CreateDirsAll(_, _)
CreateDirsAll(f, paths) ==
    IF paths = <<>> THEN [ok |-> TRUE, fs |-> f]
    ELSE LET r == create_dir_all(f, Head(paths), "OK")
         IN  IF r.err /= "OK" THEN [ok |-> FALSE, fs |-> r.fs]
             ELSE CreateDirsAll(r.fs, Tail(paths))

RECURSIVE CopyAll(_, _)
CopyAll(f, ops) ==
    IF ops = <<>> THEN [ok |-> TRUE, fs |-> f]
    ELSE LET r == copy_retry(f, Head(ops).src, Head(ops).dest, "OK", 0)
         IN  IF r.err /= "OK" THEN [ok |-> FALSE, fs |-> r.fs]
             ELSE CopyAll(r.fs, Tail(ops))

OutdatedOf(f, ops, forced) ==
    IF forced THEN [ok |-> TRUE, ops |-> ops]
    ELSE [ok |-> \A i \in 1..Len(ops) :
                    is_complete(f, ops[i], "OK", "OK", 0).err = "OK",
          ops |-> SelectSeq(ops, LAMBDA op :
                    is_complete(f, op, "OK", "OK", 0).val = FALSE)]

SingleRun(f, p, n, forced) ==
    LET gone == SelectChange(changes(dests(p), dests(n)), "Removed")
        d == DeleteAll(f, gone)
        r == RemoveDirsAll(d.fs, parent_dirs(gone))
        o == OutdatedOf(r.fs, n, forced)
        m == CreateDirsAll(r.fs, create_dirs(o.ops))
        c == CopyAll(m.fs, o.ops)
    IN  IF check_races(srcs(n), dests(n)).kind /= "Ok" THEN [ok |-> FALSE, fs |-> f]
        ELSE IF ~d.ok THEN [ok |-> FALSE, fs |-> d.fs]
        ELSE IF ~r.ok THEN [ok |-> FALSE, fs |-> r.fs]
        ELSE IF ~o.ok THEN [ok |-> FALSE, fs |-> r.fs]
        ELSE IF ~m.ok THEN [ok |-> FALSE, fs |-> m.fs]
        ELSE c

\* ------------------------------------------------------------- properties
SyncCalled == pc \notin {"parse_prev", "parse_next", "races"} /\ (pc = "exit" => result /= NoResult)
SyncReturned == pc \in {"ret", "exit"} /\ result /= NoResult

MutatingPhases == {"delete", "rmdirs", "mkdirs", "copy"}
Mutating == {a \in attempts : a.phase \in MutatingPhases}
NothingMutated == Mutating = {} /\ fs = fs0

HasOverlap(m) == \E i, j \in 1..Len(m) : m[i].src = m[j].dest
HasDupDest(m) == \E i, j \in 1..Len(m) : m[i] /= m[j] /\ m[i].dest = m[j].dest

\* A file that phase 2 would delete is there.
PruneWouldDelete ==
    \E i \in 1..Len(prev) :
        /\ prev[i].dest \notin Range(dests(next))
        /\ fs[prev[i].dest].ftype = "file"

\* C1: if some path is both a source and a destination of the next manifest,
\* sync returns Overlap, and by then nothing was deleted, removed, created or
\* copied.
C1_OverlapBeforeMutation ==
    (SyncCalled /\ HasOverlap(next)) =>
        /\ pc \in {"ret", "exit"}
        /\ result.kind = "Overlap"
        /\ NothingMutated

C1_Witness ==
    /\ pc = "ret" /\ result.kind = "Overlap" /\ ~dryrun
    /\ PruneWouldDelete

\* C2 as stated: whenever two distinct operations of the next manifest share a
\* destination, sync returns Duplicates before any mutation.
C2_DuplicatesAlways ==
    (SyncCalled /\ HasDupDest(next)) =>
        /\ pc \in {"ret", "exit"}
        /\ result.kind = "Duplicates"
        /\ NothingMutated

\* C2 amended: whenever two distinct operations share a destination, sync
\* fails before any mutation, with Duplicates if no path is both a source and
\* a destination, and with Overlap if one is.
C2_DuplicatesUnlessOverlap ==
    (SyncCalled /\ HasDupDest(next)) =>
        /\ pc \in {"ret", "exit"}
        /\ result.kind = (IF HasOverlap(next) THEN "Overlap" ELSE "Duplicates")
        /\ NothingMutated

C2_Witness ==
    /\ pc = "ret" /\ result.kind = "Duplicates" /\ ~dryrun
    /\ PruneWouldDelete

\* The distinct operations the lines of the `.next` file describe.
RawOps ==
    {CopyOp(l[1], l[2]) : l \in {x \in Range(nextFile0.lines) : Len(x) >= 2}}

Targeting(d) == {o \in RawOps : o.dest = d}

\* C3: a Duplicates error lists exactly the destinations that more than one
\* distinct operation targets, each once, with the number of those operations;
\* a line repeated verbatim does not count.
C3_DuplicatesExact ==
    result.kind = "Duplicates" =>
        /\ Range(result.items) =
             {<<o.dest, Cardinality(Targeting(o.dest))>> :
                 o \in {x \in RawOps : Cardinality(Targeting(x.dest)) > 1}}
        /\ \A i, j \in 1..Len(result.items) :
             i /= j => result.items[i][1] /= result.items[j][1]

C3_Witness ==
    /\ result.kind = "Duplicates"
    /\ \E i, j \in 1..Len(nextFile.lines) :
         i /= j /\ nextFile.lines[i] = nextFile.lines[j] /\ nextFile.lines[i] /= <<>>
    /\ result.items[1][2] = 2

\* C4: an Overlap error contains every path that is a source and a
\* destination of the next manifest, and no other path.
C4_OverlapExact ==
    result.kind = "Overlap" =>
        Range(result.items) = {o.src : o \in RawOps} \cap {o.dest : o \in RawOps}

C4_Witness ==
    /\ result.kind = "Overlap"
    /\ \E p \in Range(result.items) :
         /\ Cardinality({i \in 1..Len(next) : next[i].src = p}) > 1
         /\ Cardinality({i \in 1..Len(next) : next[i].dest = p}) > 1

\* C5: a dry run never deletes, removes, creates or copies: the file system
\* stays what it was when the run began.
C5_DryRunNoMutation == dryrun => NothingMutated

C5_Witness ==
    /\ dryrun /\ pc = "ret" /\ result.kind = "Ok" /\ result.count > 0
    /\ to_delete /= <<>> /\ fs[to_delete[1]].ftype = "file"

\* The run before was a dry run from the same state, and in neither run the
\* platform injected a fault: the file-system calls depend on the state only.
DryThenReal ==
    /\ run > 1 /\ pc = "exit"
    /\ last.dryrun /\ ~dryrun
    /\ ~last.faulted /\ ~faulted

SameFailure(r1, r2) ==
    r1.kind = r2.kind /\ SeqToBag(r1.items) = SeqToBag(r2.items)

AgreeOn(kinds) ==
    (last.result.kind \in kinds \/ result.kind \in kinds) =>
        SameFailure(last.result, result)

\* C6: from the same manifests, force flag and file system, the dry run and
\* the real run agree on Overlap, Duplicates and MissingSrcs failures and on
\* their items.
C6_DryRunSameFailures ==
    DryThenReal => AgreeOn({"Overlap", "Duplicates", "MissingSrcs"})

\* The manifest file is the old one until it is renamed, the new one after.
ManifestContent ==
    /\ ~renamed => prevFile = prevFile0
    /\ renamed => prevFile = nextFile0

\* C7 as stated: the primary manifest is replaced if and only if every phase
\* of sync reported no error; else it has its original content, and after the
\* replacement it is the generated next manifest.
C7_CommitIffNoErrors ==
    /\ pc = "exit" => (renamed <=> result.kind = "Ok")
    /\ ManifestContent

\* C7 amended: the primary manifest is replaced only after sync returned
\* without error in a run that is not a dry run, and then it is replaced
\* unless the rename itself fails; else it has its original content, and
\* after the replacement it is the generated next manifest.
C7_CommitOnlyAfterSuccess ==
    /\ renamed => (pc = "exit" /\ result.kind = "Ok" /\ ~dryrun)
    /\ (pc = "exit" /\ result.kind = "Ok" /\ ~dryrun /\ code = 0) => renamed
    /\ ManifestContent

C7_Witness ==
    /\ pc = "exit" /\ renamed /\ prevFile /= prevFile0
    /\ Mutating /= {}

PhaseNo(ph) ==
    CASE ph = "delete" -> 1
      [] ph = "rmdirs" -> 2
      [] ph = "outdated" -> 3
      [] ph = "mkdirs" -> 4
      [] ph = "copy" -> 5
      [] ph = "verify" -> 6

PcPhase(p) ==
    CASE p \in {"delete", "delete_wait"} -> 1
      [] p = "rmdirs" -> 2
      [] p \in {"outdated", "outdated_wait"} -> 3
      [] p = "mkdirs" -> 4
      [] p \in {"copy", "copy_wait"} -> 5
      [] p \in {"verify", "verify_wait"} -> 6
      [] p \in {"ret", "exit"} -> 7
      [] OTHER -> 0

ErrKind(n) ==
    CASE n = 1 -> "Delete"
      [] n = 2 -> "DeleteDirs"
      [] n = 3 -> "MissingSrcs"
      [] n = 4 -> "CreateDirs"
      [] n = 5 -> "Copy"
      [] n = 6 -> "SanityErrors"

InFlight == Range(jobs) \cup running \cup {chan[i][1] : i \in 1..Len(chan)}

\* C8: every task that is queued, running or whose result is not yet
\* received belongs to the phase the orchestrator is in, and no call of a
\* later phase was made: a phase starts only after every task of the phase
\* before has reported.
C8_PhaseBarrier ==
    /\ \A t \in InFlight :
         /\ pc \in {"delete_wait", "outdated_wait", "copy_wait", "verify_wait"}
         /\ PhaseNo(t.phase) = PcPhase(pc)
    /\ \A a \in attempts : PhaseNo(a.phase) <= PcPhase(pc)

C8_Witness ==
    /\ pc = "copy_wait" /\ Cardinality(running) = 2
    /\ Cardinality({a \in attempts : a.phase = "outdated"}) = 2

FailedPhases == {PhaseNo(a.phase) : a \in {x \in attempts : x.err /= "OK"}}

\* C9: once an item of a phase failed, no call of a later phase is ever made,
\* sync does not enter a later phase, and what it returns is the error kind
\* of that phase.
C9_EarliestFailureAborts ==
    /\ \A a, b \in attempts : a.err /= "OK" => PhaseNo(b.phase) <= PhaseNo(a.phase)
    /\ \A n \in FailedPhases : PcPhase(pc) \in {n, 7}
    /\ SyncReturned => \A n \in FailedPhases : result.kind = ErrKind(n)
    /\ (SyncReturned /\ result.kind \in {"Overlap", "Duplicates"}) => attempts = {}

C9_Witness ==
    /\ pc = "ret" /\ result.kind = "Delete"
    /\ parent_dirs(to_delete) /= <<>>
    /\ next /= <<>>

ItemsOf(ph) ==
    CASE ph = "delete" -> to_delete
      [] ph = "rmdirs" -> parent_dirs(to_delete)
      [] ph = "outdated" -> next
      [] ph = "mkdirs" -> create_dirs(outdated)
      [] ph = "copy" -> outdated

AttemptsOf(ph) == {a \in attempts : a.phase = ph}

\* Every entry of the work list of the phase was attempted, once.
AllAttempted(ph) ==
    /\ Cardinality(AttemptsOf(ph)) = Len(ItemsOf(ph))
    /\ \A i \in 1..Len(ItemsOf(ph)) :
         \E a \in AttemptsOf(ph) : a.idx = i /\ a.item = ItemsOf(ph)[i]

RECURSIVE FailuresFrom(_, _)
FailuresFrom(ph, i) ==
    IF i > Len(ItemsOf(ph)) THEN <<>>
    ELSE LET a == CHOOSE x \in AttemptsOf(ph) : x.idx = i
         IN  (IF a.err /= "OK" THEN << <<a.item, a.err>> >> ELSE <<>>)
             \o FailuresFrom(ph, i + 1)

\* The phase ran: a dry run skips the mutating phases, force skips the stats.
Ran(ph) == IF ph = "outdated" THEN ~force ELSE ~dryrun

\* C10: in each of the phases delete, remove-directories, determine-outdated,
\* create-directories and copy every entry of the work list is attempted,
\* whether or not others failed, and the error returned holds exactly the
\* entries whose call failed, each once with its cause, in whatever order the
\* workers finished.
C10_FailuresCollected ==
    \A ph \in {"delete", "rmdirs", "outdated", "mkdirs", "copy"} :
        /\ (SyncReturned /\ result.kind = ErrKind(PhaseNo(ph))) =>
              /\ AllAttempted(ph)
              /\ SeqToBag(result.items) = SeqToBag(FailuresFrom(ph, 1))
        /\ (Ran(ph) /\ PcPhase(pc) > PhaseNo(ph) /\ PcPhase(pc) < 7) =>
              AllAttempted(ph)

C10_Witness ==
    /\ pc = "ret" /\ result.kind = "Copy"
    /\ Len(outdated) = 2 /\ Len(result.items) = 2
    /\ result.items[1][1] = outdated[2]

\* What the file system says of one operation and of one path, with no fault.
Complete(f, op) == is_complete(f, op, "OK", "OK", 0) = [err |-> "OK", val |-> TRUE]
Absent(f, p) == sys_stat(f, p, "OK").err /= "OK"

IsAncestor(p, q) == Len(p) < Len(q) /\ SubSeq(q, 1, Len(p)) = p

SyncSucceeded == SyncReturned /\ result.kind = "Ok" /\ ~dryrun

StaleDests == Range(dests(prev)) \ Range(dests(next))

AllComplete == \A i \in 1..Len(next) : Complete(fs, next[i])

\* C11 as stated: after a successful run that is not a dry run, every
\* operation of next is complete and every destination of prev that is no
\* destination of next is absent.
C11_SuccessReconciles ==
    SyncSucceeded =>
        /\ AllComplete
        /\ \A p \in StaleDests : Absent(fs, p)

\* C11 with the stale paths that phase 4 makes directories let through:
\* after a successful run that is not a dry run, every operation of next
\* is complete, and every destination of prev that is no destination of
\* next is absent or is a directory above a destination of next.  It fails
\* on the first part alone: the copy of a symbolic link carries the time
\* of the link and is not complete.
C11_SuccessReconcilesFiles ==
    SyncSucceeded =>
        /\ AllComplete
        /\ \A p \in StaleDests :
             \/ Absent(fs, p)
             \/ /\ Lookup(fs, p).ftype = "dir"
                /\ \E i \in 1..Len(next) : IsAncestor(p, next[i].dest)

C11_Witness ==
    /\ SyncSucceeded
    /\ \E p \in StaleDests : fs0[p].ftype = "file" /\ Absent(fs, p)
    /\ \E a \in attempts : a.phase = "copy" /\ a.err = "OK"

\* How often the copy of the i-th outdated operation is queued, running, done.
CopyQueued(i) == Cardinality({k \in 1..Len(jobs) : jobs[k].phase = "copy" /\ jobs[k].idx = i})
CopyRunning(i) == Cardinality({t \in running : t.phase = "copy" /\ t.idx = i})
CopyDoneCount(i) == Cardinality({a \in attempts : a.phase = "copy" /\ a.idx = i})

\* The operations of next that the file system shows as not complete.
Incomplete == {next[i] : i \in {k \in 1..Len(next) : ~Complete(fs, next[k])}}

\* C12: in a run that is not a dry run, with force = false, what phase 3
\* returns is operations of next, each once, among them every operation that
\* is not complete, and no other unless a stat of a destination failed; a
\* copy is attempted only for those; from the submission on each of them is
\* queued, running or done exactly once, and when phase 5 is over each was
\* attempted exactly once.
C12_CopyIffOutdated ==
    (~dryrun /\ ~force) =>
        /\ pc \in {"mkdirs", "copy"} =>
             /\ Incomplete \subseteq Range(outdated)
             /\ Range(outdated) \subseteq Range(next)
             /\ ~faulted => Range(outdated) = Incomplete
             /\ \A i, j \in 1..Len(outdated) : i /= j => outdated[i] /= outdated[j]
        /\ \A a \in attempts : a.phase = "copy" =>
             /\ a.idx \in 1..Len(outdated)
             /\ a.item = outdated[a.idx]
        /\ pc = "copy_wait" =>
             \A i \in 1..Len(outdated) :
                 CopyQueued(i) + CopyRunning(i) + CopyDoneCount(i) = 1
        /\ (PcPhase(pc) > 5 /\ FailedPhases \cap {1, 2, 3, 4} = {} /\ SyncCalled
            /\ result.kind \notin {"Overlap", "Duplicates"}) =>
             \A i \in 1..Len(outdated) : CopyDoneCount(i) = 1

C12_Witness ==
    /\ ~dryrun /\ ~force /\ pc = "ret" /\ result.kind = "Ok"
    /\ Len(next) = 2 /\ Len(outdated) = 1
    /\ Cardinality({a \in attempts : a.phase = "copy"}) = 1

DeleteTargets == {a.item : a \in AttemptsOf("delete")}

\* C13: the paths on which phase 2 attempts a file deletion are never
\* destinations of next, and once phase 2 is over in a run that is not a dry
\* run they are exactly the destinations of prev that are no destinations of
\* next.
C13_PruneExactlyStale ==
    /\ DeleteTargets \cap Range(dests(next)) = {}
    /\ (~dryrun /\ SyncCalled /\ PcPhase(pc) > 1
        /\ result.kind \notin {"Overlap", "Duplicates"}) =>
          DeleteTargets = StaleDests

\* Phase 3 returned without error in this run.
OutdatedReturned ==
    \/ PcPhase(pc) \in {4, 5, 6}
    \/ /\ SyncReturned
       /\ result.kind \in {"CreateDirs", "Copy", "SanityErrors", "SanityNotCopied", "Ok"}

StatEntries ==
    {NoEntry} \cup
    {[ftype |-> t, len |-> l, mtime |-> m, ro |-> r, ltime |-> m] :
        t \in {"file", "dir"}, l \in {1, 2}, m \in {1, 2}, r \in BOOLEAN}

StatStates ==
    {f \in [FsPaths -> StatEntries \cup {DirEntry}] :
        /\ f[PD] = DirEntry /\ f[PDY] = NoEntry
        /\ f[PA] \in StatEntries /\ f[PDX] \in StatEntries}

InitStat ==
    /\ dryrun = FALSE /\ force \in BOOLEAN /\ sanity = FALSE
    /\ prevFile = NoFile /\ nextFile = File(<<LineAX>>)
    /\ fs \in StatStates
    /\ pc = "outdated"
    /\ prev = <<>> /\ next = parse_reader(nextFile.lines).operations
    /\ to_delete = <<>> /\ dirs = <<>> /\ idx = 0
    /\ outdated = <<>> /\ found = <<>>
    /\ failed = <<>> /\ nrecv = 0
    /\ jobs = <<>> /\ running = {} /\ chan = <<>>
    /\ result = NoResult /\ code = 0
    /\ fs0 = fs /\ prevFile0 = prevFile /\ nextFile0 = nextFile
    /\ attempts = {} /\ faulted = FALSE /\ renamed = FALSE
    /\ run = 1 /\ last = NoLast /\ rt = NoCall

NextStat == Outdated \/ WorkerTake \/ WorkerStat \/ OutdatedRecv \/ OutdatedDone

SpecStat == InitStat /\ [][NextStat]_vars

False == [err |-> "OK", val |-> FALSE]
True == [err |-> "OK", val |-> TRUE]

SameMeta(a, b) ==
    /\ a.len = b.len /\ a.ftype = b.ftype
    /\ a.mtime = b.mtime /\ a.ro = b.ro

\* C15 as stated: whenever the destination is missing, is_complete returns
\* false, never true and never an error.
C15_MissingDestIsFalse ==
    \A i \in 1..Len(next), fa \in Faults, fb \in Faults :
        /\ Absent(fs, next[i].dest) =>
              is_complete(fs, next[i], fa, fb, Retries) = False
        /\ \A k \in 1..Len(chan) :
              Absent(fs, chan[k][1].item.dest) => chan[k][2] = False

\* C15 amended: whenever the destination is missing and the source can be
\* stat'ed, is_complete returns false, never true and never an error.
C15_MissingDestIsFalseWithSource ==
    \A i \in 1..Len(next), fa \in Faults, fb \in Faults :
        /\ (Absent(fs, next[i].dest) /\ sys_stat(fs, next[i].src, fa).err = "OK") =>
              is_complete(fs, next[i], fa, fb, Retries) = False
        /\ \A k \in 1..Len(chan) :
              (Absent(fs, chan[k][1].item.dest) /\ chan[k][2].err = "OK") =>
                  chan[k][2] = False

C15_Witness ==
    /\ pc = "mkdirs" /\ ~force
    /\ Len(outdated) = 1 /\ Absent(fs, outdated[1].dest)
    /\ \E a \in AttemptsOf("outdated") : a.item = outdated[1] /\ a.err = "OK"

\* C16: if the source can be stat'ed, is_complete returns true exactly when
\* the destination can be stat'ed and has the length, the type, the
\* modification time and the read-only flag of the source, and false
\* otherwise; if the source cannot be stat'ed it returns that error.
C16_CompleteIffSameMetadata ==
    \A i \in 1..Len(next), fa \in Faults, fb \in Faults :
        LET a == sys_stat(fs, next[i].src, fa)
            b == sys_stat(fs, next[i].dest, fb)
            r == is_complete(fs, next[i], fa, fb, Retries)
        IN  IF a.err = "OK"
            THEN r = (IF b.err = "OK" /\ SameMeta(a.meta, b.meta) THEN True ELSE False)
            ELSE r.err = a.err /\ r /= False /\ r /= True

C16_Witness ==
    /\ pc = "mkdirs" /\ ~force /\ ~faulted
    /\ outdated = <<>> /\ Len(next) = 1
    /\ fs[PA].ro /\ fs[PA].len = 2 /\ fs[PA].ftype = "file"
    /\ \E a \in AttemptsOf("outdated") : a.item = next[1] /\ a.err = "OK"

\* What the is_complete calls of phase 3 returned.
StatFalse == {a.item : a \in {x \in AttemptsOf("outdated") : x.err = "OK" /\ ~x.val}}
StatErr == {<<a.item, a.err>> : a \in {x \in AttemptsOf("outdated") : x.err /= "OK"}}

\* outdated() has returned in this run (force = false).
OutdatedOver ==
    \/ OutdatedReturned
    \/ SyncReturned /\ result.kind = "MissingSrcs"

\* C17: with force = false, once outdated() has returned, every operation
\* was checked once; if some check failed hard the result is the error with
\* exactly the operations whose check failed, each with its cause, and no
\* list of operations; else it is exactly the operations whose check gave
\* false, each once. Without a platform fault both depend on the manifest
\* and the file system alone, not on the order in which the workers finish.
C17_OutdatedExact ==
    (~force /\ OutdatedOver) =>
        /\ \A i \in 1..Len(next) :
             Cardinality({a \in AttemptsOf("outdated") : a.idx = i /\ a.item = next[i]}) = 1
        /\ IF StatErr /= {}
           THEN /\ result.kind = "MissingSrcs"
                /\ Range(result.items) = StatErr
                /\ Len(result.items) = Cardinality(StatErr)
                /\ outdated = <<>>
                /\ ~faulted =>
                     {e[1] : e \in StatErr} =
                         {next[i] : i \in {k \in 1..Len(next) :
                                             sys_stat(fs, next[k].src, "OK").err /= "OK"}}
           ELSE /\ OutdatedReturned
                /\ Range(outdated) = StatFalse
                /\ Len(outdated) = Cardinality(StatFalse)
                /\ (~faulted /\ pc \in {"mkdirs", "copy"}) => Range(outdated) = Incomplete

C17_Witness ==
    /\ ~force /\ pc = "mkdirs"
    /\ Len(next) = 2 /\ Len(outdated) = 2
    /\ outdated[1] = next[2]

Copied == {a \in AttemptsOf("copy") : a.err = "OK"}

\* C18 as stated: whenever sync returns success, the number it returns is
\* the number of operations copied in phase 5, in a dry run too.
C18_CountIsCopied ==
    (SyncReturned /\ result.kind = "Ok") => result.count = Cardinality(Copied)

\* C18 amended: whenever sync returns success, the number it returns is the
\* number of outdated operations; in a run that is not a dry run these are
\* exactly the operations copied in phase 5, in a dry run nothing was copied.
C18_CountIsOutdated ==
    (SyncReturned /\ result.kind = "Ok") =>
        /\ result.count = Len(outdated)
        /\ ~dryrun => result.count = Cardinality(Copied)
        /\ dryrun => Copied = {}

C18_Witness ==
    /\ SyncSucceeded /\ ~force
    /\ Len(next) = 2 /\ result.count = 1
    /\ Cardinality(Copied) = 1


\* ------------------------------------------------- the retrying wrappers
\* One call of a retrying wrapper of util.rs, followed attempt by attempt:
\* every invocation of the wrapper calls the underlying function once and
\* then returns, or sleeps and calls itself.
MaxRetryArg == 2
MaxDelay == 2
MaxCalls == 2

RetryFns == {"remove_dir_retry", "remove_file_retry", "copy_retry",
             "metadata_retry"}

\* `round` counts the calls the caller made on the same path, `prior` is the
\* result of the call before and `before` the file system the call started on.
NewCall(fn, retries, delay, f, round, prior) ==
    [fn |-> fn, retries0 |-> retries, delay0 |-> delay, retries |-> retries,
     delay |-> delay, calls |-> 0, errs |-> <<>>, sleeps |-> <<>>,
     ret |-> "running", round |-> round, prior |-> prior, before |-> f]

\* Variant: the recursive call keeps the delay instead of doubling it.
RetryFrameFlat(err, retryable) ==
    LET seen == [rt EXCEPT !.calls = @ + 1, !.errs = Append(@, err)]
    IN  IF err = "OK" THEN [seen EXCEPT !.ret = "Ok"]
        ELSE IF retryable /\ rt.retries > 0
             THEN [seen EXCEPT !.sleeps = Append(@, rt.delay),
                               !.retries = @ - 1]
        ELSE [seen EXCEPT !.ret = err]

\* The match on the underlying result: Ok returns, an error of a retried
\* kind with retries left sleeps `delay` and recurses with retries - 1 and
\* delay * 2, any other error is returned.
RetryFrame(err, retryable) ==
    LET seen == [rt EXCEPT !.calls = @ + 1, !.errs = Append(@, err)]
    IN  IF err = "OK" THEN [seen EXCEPT !.ret = "Ok"]
        ELSE IF retryable /\ rt.retries > 0
             THEN [seen EXCEPT !.sleeps = Append(@, rt.delay),
                               !.retries = @ - 1,
                               !.delay = @ * 2]
        ELSE [seen EXCEPT !.ret = err]

NotWorthRetrying(err) == Kind(err) \in {"NotFound", "PermissionDenied"}

RetryRest == <<pc, args, files, manifests, lists, acc, pool, result, code,
               fs0, prevFile0, nextFile0, renamed, run, last, attempts,
               faulted>>

RemoveDirRetry ==
    /\ rt.fn = "remove_dir_retry" /\ rt.ret = "running"
    /\ \E fault \in Faults :
           LET r == remove_dir(fs, PD, fault)
           IN  /\ fs' = r.fs
               /\ rt' = RetryFrame(r.err, TRUE)
    /\ UNCHANGED RetryRest

RemoveFileRetry ==
    /\ rt.fn = "remove_file_retry" /\ rt.ret = "running"
    /\ \E fault \in Faults :
           LET r == remove_file(fs, PDX, fault)
           IN  /\ fs' = r.fs
               /\ rt' = RetryFrame(r.err, TRUE)
    /\ UNCHANGED RetryRest

CopyRetry ==
    /\ rt.fn = "copy_retry" /\ rt.ret = "running"
    /\ \E fault \in Faults :
           LET r == copy(fs, PA, PDY, fault)
           IN  /\ fs' = r.fs
               /\ rt' = RetryFrame(r.err, ~NotWorthRetrying(r.err))
    /\ UNCHANGED RetryRest

MetadataRetry ==
    /\ rt.fn = "metadata_retry" /\ rt.ret = "running"
    /\ \E fault \in Faults :
           LET r == sys_stat(fs, PDX, fault)
           IN  /\ fs' = fs
               /\ rt' = RetryFrame(r.err, ~NotWorthRetrying(r.err))
    /\ UNCHANGED RetryRest

InitRetry ==
    /\ dryrun = FALSE /\ force = FALSE /\ sanity = FALSE
    /\ prevFile = NoFile /\ nextFile = NoFile
    /\ fs \in FsStates
    /\ pc = "retry"
    /\ prev = <<>> /\ next = <<>>
    /\ to_delete = <<>> /\ dirs = <<>> /\ idx = 0
    /\ outdated = <<>> /\ found = <<>>
    /\ failed = <<>> /\ nrecv = 0
    /\ jobs = <<>> /\ running = {} /\ chan = <<>>
    /\ result = NoResult /\ code = 0
    /\ fs0 = fs /\ prevFile0 = prevFile /\ nextFile0 = nextFile
    /\ attempts = {} /\ faulted = FALSE /\ renamed = FALSE
    /\ run = 1 /\ last = NoLast
    /\ \E fn \in RetryFns, retries \in 0..MaxRetryArg, delay \in 1..MaxDelay :
           rt = NewCall(fn, retries, delay, fs, 1, "none")

\* The caller calls the wrapper again on the same path with the same
\* arguments: a destination deleted twice in a row, or in the next run.
CallAgain ==
    /\ rt.fn \in RetryFns /\ rt.ret \notin {"none", "running"}
    /\ rt.round < MaxCalls
    /\ rt' = NewCall(rt.fn, rt.retries0, rt.delay0, fs, rt.round + 1, rt.ret)
    /\ UNCHANGED <<fs, RetryRest>>

NextRetry ==
    \/ RemoveDirRetry \/ RemoveFileRetry \/ CopyRetry \/ MetadataRetry
    \/ CallAgain

SpecRetry == InitRetry /\ [][NextRetry]_vars

RECURSIVE Pow2(_)
Pow2(n) == IF n = 0 THEN 1 ELSE 2 * Pow2(n - 1)

Returned == rt.fn /= "none" /\ rt.ret /= "running"

LastErr == rt.errs[Len(rt.errs)]

\* Every attempt so far failed with an error that is neither not-found nor
\* permission-denied.
OnlyRetriedKinds ==
    \A k \in 1..Len(rt.errs) :
        rt.errs[k] /= "OK" /\ ~NotWorthRetrying(rt.errs[k])

\* C19: a wrapper whose underlying call fails every time with an error other
\* than not-found/permission-denied calls it exactly retries + 1 times, its
\* k-th sleep lasts delay * 2^(k-1) and it returns the error of the last
\* attempt; an attempt that succeeds is the last one and no sleep follows it.
C19_RetryBackoff ==
    rt.fn /= "none" =>
        /\ rt.calls = Len(rt.errs)
        /\ rt.calls <= rt.retries0 + 1
        /\ \A k \in 1..Len(rt.sleeps) : rt.sleeps[k] = rt.delay0 * Pow2(k - 1)
        /\ rt.ret = "running" => Len(rt.sleeps) = rt.calls
        /\ Returned =>
              /\ Len(rt.sleeps) = rt.calls - 1
              /\ rt.ret = IF LastErr = "OK" THEN "Ok" ELSE LastErr
        /\ (Returned /\ OnlyRetriedKinds) =>
              /\ rt.calls = rt.retries0 + 1
              /\ Len(rt.sleeps) = rt.retries0
              /\ rt.ret = LastErr
        /\ (rt.ret = "running" /\ OnlyRetriedKinds) =>
              rt.calls <= rt.retries0
        /\ \A k \in 1..Len(rt.errs) :
              rt.errs[k] = "OK" => k = Len(rt.errs) /\ rt.ret = "Ok"

C19_Witness ==
    /\ rt.fn = "copy_retry" /\ rt.retries0 = 2 /\ rt.delay0 = 2
    /\ rt.errs = <<"EIO", "EIO", "EIO">>
    /\ rt.sleeps = <<2, 4>> /\ rt.ret = "EIO"

\* C20 as stated: in every retrying wrapper an underlying not-found or
\* permission-denied failure is returned at once: it is the last attempt, it
\* is the returned error and no sleep follows it.
C20_NoRetryOnNotFoundOrDenied ==
    \A k \in 1..Len(rt.errs) :
        NotWorthRetrying(rt.errs[k]) =>
            /\ k = Len(rt.errs)
            /\ rt.ret = rt.errs[k]
            /\ Len(rt.sleeps) = k - 1

\* The part of C20 the code keeps: copy_retry and metadata_retry return a
\* not-found or permission-denied failure at once.
C20_CopyAndStatReturnAtOnce ==
    rt.fn \in {"copy_retry", "metadata_retry"} => C20_NoRetryOnNotFoundOrDenied

\* The unlink of p reports not-found: p is missing, or a directory on the
\* way to it is.
NotFoundAt(f, p) == Kind(sys_unlink(f, p, "OK").err) = "NotFound"

RemovedFile == rt.fn = "remove_file_retry" /\ rt.ret \notin {"none", "running"}

FirstTry ==
    /\ rt.ret = "Ok" /\ rt.calls = 1 /\ rt.sleeps = <<>>
    /\ fs = rt.before

\* C21 as stated: remove_file_retry on a path that does not exist returns
\* success on the first attempt, without a sleep and without a change of the
\* file system.
C21_RemoveMissingSucceeds ==
    (RemovedFile /\ Absent(rt.before, PDX)) => FirstTry

\* C21: remove_file_retry on a path whose unlink reports not-found returns
\* success on the first attempt, without a sleep and without a change of the
\* file system; so a second deletion after a successful one succeeds and
\* leaves the state of the first.
C21_RemoveIdempotent ==
    /\ (RemovedFile /\ NotFoundAt(rt.before, PDX)) => FirstTry
    /\ (RemovedFile /\ rt.round > 1 /\ rt.prior = "Ok") => FirstTry
    /\ (RemovedFile /\ rt.ret = "Ok") => NotFoundAt(fs, PDX)

C21_Witness ==
    /\ RemovedFile /\ rt.round = 2 /\ rt.prior = "Ok" /\ rt.ret = "Ok"
    /\ fs0[PDX].ftype = "file" /\ fs[PDX].ftype = "none"

\* --------------------------------------------------- remove_empty_dirs
\* One call of remove_empty_dirs followed invocation by invocation, on a
\* tree with a root, a parent directory `..` and directories /d, /d/d, d,
\* d/d and ../d; /d and d may hold a file x.
PRoot == <<RootDir>>
PUp == <<ParentDir>>

TreePaths ==
    {PRoot, PUp, <<RootDir, 4>>, <<RootDir, 4, 3>>, <<RootDir, 4, 4>>,
     <<ParentDir, 4>>, PD, PDX, PDY}

StartDirs == {<<RootDir, 4, 4>>, PDY, <<ParentDir, 4>>}

TreeStates ==
    {f \in [TreePaths -> {NoEntry, DirEntry, FileV1}] :
        /\ f[PRoot] = DirEntry /\ f[PUp] = DirEntry
        /\ f[PDX].ftype /= "dir" /\ f[<<RootDir, 4, 3>>].ftype /= "dir"
        /\ \A p \in TreePaths :
              (Len(p) > 1 /\ f[p] /= NoEntry) => f[Front(p)] = DirEntry}

NewClimb(path, f) ==
    [fn |-> "remove_empty_dirs", start |-> path, path |-> path,
     tried |-> <<>>, outs |-> <<>>, ret |-> "running", before |-> f]

\* What the rmdir of one invocation came to.
RmdirOutcome(f, path, r) ==
    IF r.err /= "OK" THEN r.err
    ELSE IF ~r.val THEN "nonempty"
    ELSE IF sys_stat(f, path, "OK").err = "OK" THEN "removed"
    ELSE "absent"

RemoveEmptyDirs ==
    /\ rt.fn = "remove_empty_dirs" /\ rt.ret = "running"
    /\ \E fault \in Faults :
           LET r == remove_dir_retry(fs, rt.path, fault, Retries)
               up == removable_parent(rt.path)
               seen == [rt EXCEPT !.tried = Append(@, rt.path),
                                  !.outs = Append(@, RmdirOutcome(fs, rt.path, r))]
           IN  /\ fs' = r.fs
               /\ rt' = IF r.err /= "OK" THEN [seen EXCEPT !.ret = r.err]
                        ELSE IF ~r.val THEN [seen EXCEPT !.ret = "Ok"]
                        ELSE IF up /= <<>> THEN [seen EXCEPT !.path = up[1]]
                        ELSE [seen EXCEPT !.ret = "Ok"]
    /\ UNCHANGED RetryRest

InitDirs ==
    /\ dryrun = FALSE /\ force = FALSE /\ sanity = FALSE
    /\ prevFile = NoFile /\ nextFile = NoFile
    /\ fs \in TreeStates
    /\ pc = "rmdirs"
    /\ prev = <<>> /\ next = <<>>
    /\ to_delete = <<>> /\ dirs = <<>> /\ idx = 0
    /\ outdated = <<>> /\ found = <<>>
    /\ failed = <<>> /\ nrecv = 0
    /\ jobs = <<>> /\ running = {} /\ chan = <<>>
    /\ result = NoResult /\ code = 0
    /\ fs0 = fs /\ prevFile0 = prevFile /\ nextFile0 = nextFile
    /\ attempts = {} /\ faulted = FALSE /\ renamed = FALSE
    /\ run = 1 /\ last = NoLast
    /\ \E path \in StartDirs : rt = NewClimb(path, fs)

NextDirs == RemoveEmptyDirs

SpecDirs == InitDirs /\ [][NextDirs]_vars

Climbing == rt.fn = "remove_empty_dirs"

Gone(out) == out \in {"removed", "absent"}

\* C22: remove_empty_dirs tries rmdir on path and then on its removable
\* parents, deepest first; it climbs on after a directory that was removed
\* or absent, returns Ok at the first non-empty directory and when there is
\* no removable parent, returns any other error, makes at most as many
\* attempts as the path has components, and never tries a directory whose
\* last component is a root, `.` or `..`.
C22_ClimbEmptyDirs ==
    Climbing =>
        /\ Len(rt.outs) = Len(rt.tried)
        /\ Len(rt.tried) <= Len(rt.start)
        /\ rt.tried /= <<>> => rt.tried[1] = rt.start
        /\ \A k \in 1..Len(rt.tried) :
              /\ rt.tried[k] /= <<>> /\ IsNormal(Last(rt.tried[k]))
              /\ k < Len(rt.tried) =>
                    /\ Gone(rt.outs[k])
                    /\ rt.tried[k + 1] = Front(rt.tried[k])
                    /\ IsNormal(Last(Front(rt.tried[k])))
              /\ rt.outs[k] = "removed" => Absent(fs, rt.tried[k])
        /\ rt.ret = "running" =>
              /\ ENABLED RemoveEmptyDirs
              /\ rt.tried = <<>> => rt.path = rt.start
              /\ rt.tried /= <<>> =>
                    /\ Gone(rt.outs[Len(rt.outs)])
                    /\ rt.path = Front(rt.tried[Len(rt.tried)])
        /\ rt.ret /= "running" =>
              /\ rt.tried /= <<>>
              /\ LET out == rt.outs[Len(rt.outs)]
                     at == rt.tried[Len(rt.tried)]
                 IN  /\ out = "nonempty" => rt.ret = "Ok"
                     /\ Gone(out) =>
                           /\ rt.ret = "Ok"
                           /\ \/ Len(at) = 1
                              \/ ~IsNormal(Last(Front(at)))
                     /\ (out /= "nonempty" /\ ~Gone(out)) => rt.ret = out
                     /\ rt.ret = "Ok" => (out = "nonempty" \/ Gone(out))

C22_Witness ==
    /\ Climbing /\ rt.ret = "Ok"
    /\ rt.tried = << <<RootDir, 4, 4>>, <<RootDir, 4>> >>
    /\ rt.outs = <<"removed", "removed">>
    /\ fs[PRoot] = DirEntry

\* The stats of phase 6 that failed, and the operations it found outdated.
VerifyFailed == {a \in AttemptsOf("verify") : a.err /= "OK"}
VerifyFailures == {<<a.item, a.err>> : a \in VerifyFailed}
StillOutdated == {a \in AttemptsOf("verify") : a.err = "OK" /\ ~a.val}

\* C23: when a source stat fails in phase 6 of a run that is not a dry run
\* and verifies, sync returns SanityErrors with every such operation and its
\* cause, and never SanityNotCopied, even when other operations are still
\* outdated.
C23_StatFailureIsVerifyErrors ==
    /\ AttemptsOf("verify") /= {} => (sanity /\ ~dryrun)
    /\ (SyncReturned /\ VerifyFailed /= {}) =>
          /\ result.kind = "SanityErrors"
          /\ Range(result.items) = VerifyFailures
          /\ Len(result.items) = Cardinality(VerifyFailed)
    /\ (SyncReturned /\ result.kind = "SanityNotCopied") =>
          /\ VerifyFailed = {}
          /\ Range(result.items) = {a.item : a \in StillOutdated}
    /\ (SyncReturned /\ result.kind = "SanityErrors") => VerifyFailed /= {}

C23_Witness ==
    /\ SyncReturned /\ result.kind = "SanityErrors"
    /\ StillOutdated /= {}
    /\ Len(result.items) = 1

\* A run that follows one that did not commit: it failed or was killed.
Resumed ==
    /\ run > 1 /\ pc = "exit" /\ result /= NoResult
    /\ ~last.dryrun /\ last.result.kind /= "Ok"

\* No call of the run failed, the rename of the manifest included.
NoCallFailed ==
    /\ ~faulted
    /\ \A a \in attempts : a.err = "OK"
    /\ result.kind = "Ok" => renamed

\* The state one undisturbed run from the first state would have left.
AsSingleRun ==
    /\ result.kind = "Ok" /\ renamed /\ prevFile = nextFile0
    /\ SingleRun(last.fs0, prev, next, force) = [ok |-> TRUE, fs |-> fs]

\* C24 as stated: after a run that was aborted by an error of any phase or
\* killed before the commit, a run with the same manifests in which no call
\* fails succeeds and leaves the tree and the manifest as one undisturbed run
\* from the first state would have.
C24_ResumeSucceeds ==
    (Resumed /\ NoCallFailed) => AsSingleRun

\* C24 for a resumed run that passes the race check only; and an
\* undisturbed first run leaves what SingleRun computes.  It fails when a
\* source is a symbolic link: the copy the first run made carries the time
\* of the link and the second run makes it again.
C24_ResumeSucceedsPastRaces ==
    /\ (Resumed /\ NoCallFailed /\ result.kind \notin {"Overlap", "Duplicates"}) =>
          AsSingleRun
    /\ (run = 1 /\ pc = "exit" /\ ~dryrun /\ ~faulted /\ result.kind = "Ok") =>
          SingleRun(fs0, prev, next, force) = [ok |-> TRUE, fs |-> fs]

C24_Witness ==
    /\ Resumed /\ NoCallFailed /\ result.kind = "Ok"
    /\ last.result.kind = "Killed"
    /\ fs0 /= last.fs0 /\ fs /= fs0
    /\ \E p \in FsPaths : fs0[p] = FileV2

\* A run that follows a successful, committed run without force, with the
\* same next manifest, and in which no call is disturbed.
SecondRun ==
    /\ run > 1 /\ ~last.dryrun /\ last.result.kind = "Ok"
    /\ prevFile0 = nextFile0
    /\ ~force /\ ~faulted

\* C25: the run after a successful run, on the committed manifest and the
\* same next manifest, attempts no deletion, no directory removal, no
\* directory creation and no copy, and returns 0.
C25_SecondRunDoesNothing ==
    SecondRun =>
        /\ Mutating = {} /\ fs = fs0
        /\ to_delete = <<>> /\ outdated = <<>>
        /\ \A t \in Range(jobs) \cup running : t.phase = "outdated"
        /\ SyncReturned => result = Ok(0)
        /\ pc = "exit" => (SyncReturned /\ prevFile.lines = nextFile0.lines)

C25_Witness ==
    /\ SecondRun /\ pc = "exit" /\ result = Ok(0)
    /\ last.result.count > 0 /\ Len(next) > 1
    /\ AttemptsOf("outdated") /= {}

\* ------------------------------------------------------ the diff iterator
\* Changes::next called until it yields nothing, on two strictly ascending
\* sequences of paths.
MaxDiffLen == 3

DiffItems == {PA, PD, PDX, PDY}

Ascending(s) == \A i \in 1..(Len(s) - 1) : PathLess(s[i], s[i + 1])

SortedSeqs == {s \in Seqs(DiffItems, MaxDiffLen) : Ascending(s)}

\* The frozen rest of the state when one function is taken alone.
Alone(label) ==
    /\ dryrun = FALSE /\ force = FALSE /\ sanity = FALSE
    /\ prevFile = NoFile /\ nextFile = NoFile
    /\ pc = label
    /\ prev = <<>> /\ next = <<>>
    /\ to_delete = <<>> /\ dirs = <<>> /\ idx = 0
    /\ outdated = <<>> /\ found = <<>>
    /\ failed = <<>> /\ nrecv = 0
    /\ jobs = <<>> /\ running = {} /\ chan = <<>>
    /\ result = NoResult /\ code = 0
    /\ fs0 = fs /\ prevFile0 = prevFile /\ nextFile0 = nextFile
    /\ attempts = {} /\ faulted = FALSE /\ renamed = FALSE
    /\ run = 1 /\ last = NoLast

\* Changes::new: the first item of each side is fetched.
NewChanges(a, b) ==
    [fn |-> "changes", a0 |-> a, b0 |-> b, a |-> a, b |-> b, out |-> <<>>,
     done |-> FALSE]

\* Changes::next: `a` and `b` are what is left of each side, next_a and
\* next_b being their heads.
ChangesNext ==
    /\ rt.fn = "changes" /\ ~rt.done
    /\ rt' =
         IF rt.a /= <<>> /\ rt.b /= <<>>
         THEN IF PathLess(Head(rt.a), Head(rt.b))
              THEN [rt EXCEPT !.a = Tail(@),
                              !.out = Append(@, <<Head(rt.a), "Removed">>)]
              ELSE IF PathLess(Head(rt.b), Head(rt.a))
              THEN [rt EXCEPT !.b = Tail(@),
                              !.out = Append(@, <<Head(rt.b), "Added">>)]
              ELSE [rt EXCEPT !.a = Tail(@), !.b = Tail(@),
                              !.out = Append(@, <<Head(rt.a), "None">>)]
         ELSE IF rt.a /= <<>>
         THEN [rt EXCEPT !.a = Tail(@),
                         !.out = Append(@, <<Head(rt.a), "Removed">>)]
         ELSE IF rt.b /= <<>>
         THEN [rt EXCEPT !.b = Tail(@),
                         !.out = Append(@, <<Head(rt.b), "Added">>)]
         ELSE [rt EXCEPT !.done = TRUE]
    /\ UNCHANGED <<fs, RetryRest>>

InitDiff ==
    /\ fs = [p \in FsPaths |-> NoEntry]
    /\ Alone("changes")
    /\ \E a \in SortedSeqs, b \in SortedSeqs : rt = NewChanges(a, b)

NextDiff == ChangesNext

SpecDiff == InitDiff /\ [][NextDiff]_vars

Emitted(tag) == {rt.out[k][1] : k \in {i \in 1..Len(rt.out) : rt.out[i][2] = tag}}

\* C26: on two strictly ascending sequences A and B the iterator yields every
\* element of A union B exactly once, in ascending order, as Removed iff it
\* is in A only, as Added iff it is in B only and as None iff it is in both;
\* on two empty sequences it yields nothing.
C26_DiffExact ==
    rt.fn = "changes" =>
        /\ Ascending([k \in 1..Len(rt.out) |-> rt.out[k][1]])
        /\ \A k \in 1..Len(rt.out) :
              LET x == rt.out[k][1]
                  tag == rt.out[k][2]
              IN  /\ tag \in {"Removed", "Added", "None"}
                  /\ tag = "Removed" <=> (x \in Range(rt.a0) /\ x \notin Range(rt.b0))
                  /\ tag = "Added" <=> (x \in Range(rt.b0) /\ x \notin Range(rt.a0))
                  /\ tag = "None" <=> (x \in Range(rt.a0) /\ x \in Range(rt.b0))
        /\ rt.done =>
              /\ Emitted("Removed") = Range(rt.a0) \ Range(rt.b0)
              /\ Emitted("Added") = Range(rt.b0) \ Range(rt.a0)
              /\ Emitted("None") = Range(rt.a0) \cap Range(rt.b0)
              /\ Len(rt.out) = Cardinality(Range(rt.a0) \cup Range(rt.b0))
              /\ rt.out = changes(rt.a0, rt.b0)
              /\ (rt.a0 = <<>> /\ rt.b0 = <<>>) => rt.out = <<>>

C26_Witness ==
    /\ rt.fn = "changes" /\ rt.done
    /\ rt.a0 = <<PA, PD, PDX>> /\ rt.b0 = <<PD, PDX, PDY>>
    /\ rt.out = << <<PA, "Removed">>, <<PD, "None">>, <<PDX, "None">>,
                   <<PDY, "Added">> >>

NonDecreasing(s) == \A i \in 1..(Len(s) - 1) : ~PathLess(s[i + 1], s[i])

StrictlySorted(m) == \A i \in 1..(Len(m) - 1) : OpLess(m[i], m[i + 1])

Parsed == pc \notin {"parse_prev", "parse_next"} /\ (pc = "exit" => result /= NoResult)

\* C27: the operations of every parsed manifest ascend strictly by
\* (src, dest), so no two are equal; srcs() ascends, possibly with repeats,
\* and dests() ascends; the operations are those of the lines.
C27_ParseSorted ==
    /\ \A m \in {prev, next} :
          /\ StrictlySorted(m)
          /\ \A i, j \in 1..Len(m) : m[i] = m[j] => i = j
          /\ NonDecreasing(srcs(m))
          /\ NonDecreasing(dests(m))
          /\ Len(srcs(m)) = Len(m) /\ Len(dests(m)) = Len(m)
    /\ Parsed => Range(next) = RawOps

C27_Witness ==
    /\ Parsed
    /\ nextFile0.lines = << <<PA, PDY>>, <<PDotA, PDX>>, <<PA, PDY>> >>
    /\ next = << [src |-> PA, dest |-> PDX], [src |-> PA, dest |-> PDY] >>
    /\ srcs(next) = <<PA, PA>>

\* ------------------------------------------------------- parsing of text
\* parse_reader on the text of a manifest: blank and comment lines, padded
\* lines, records, and lines with a field too few or too many.
MaxTextLines == 3

TextLines ==
    { <<>>, <<"sp">>, <<"#", "a">>, <<"sp", "#">>,
      <<"a", "tab", "d", "/", "a">>,
      <<"sp", "d", "/", "d", "tab", "d", "sp">>,
      <<"a">>, <<"tab", "d">>, <<"a", "tab">>,
      <<"a", "tab", "d", "tab", "a">>,
      <<"a", "tab", "tab", "d">> }

NewParse(texts) ==
    [fn |-> "parse_reader", texts |-> texts, ret |-> "running",
     m |-> NoManifest]

ParseText ==
    /\ rt.fn = "parse_reader" /\ rt.ret = "running"
    /\ rt' = [rt EXCEPT !.ret = "done", !.m = parse_text(rt.texts)]
    /\ UNCHANGED <<fs, RetryRest>>

InitParse ==
    /\ fs = [p \in FsPaths |-> NoEntry]
    /\ Alone("parse_next")
    /\ \E texts \in Seqs(TextLines, MaxTextLines) : rt = NewParse(texts)

NextParse == ParseText

SpecParse == InitParse /\ [][NextParse]_vars

\* A line that is neither blank nor a comment and has, once trimmed, fewer
\* than two tab-separated fields.
Lacks(text) == ~ignored(text) /\ Len(split_tab(trim(text), <<>>)) < 2

LackingLines == {i \in 1..Len(rt.texts) : Lacks(rt.texts[i])}

Records == {i \in 1..Len(rt.texts) : ~ignored(rt.texts[i]) /\ ~Lacks(rt.texts[i])}

RecordOp(text) ==
    LET s == split_tab(trim(text), <<>>)
    IN  CopyOp(path_new(s[1]), path_new(s[2]))

MaxSegs == 3
MaxPasses == 2

Segments == {"", ".", "..", "a", "d"}

RECURSIVE join(_)
join(segs) ==
    IF segs = <<>> THEN <<>>
    ELSE (IF Head(segs) = "" THEN <<>> ELSE <<Head(segs)>>)
         \o (IF Tail(segs) = <<>> THEN <<>> ELSE <<"/">> \o join(Tail(segs)))

\* Inputs of tests::test_norm that are longer than MaxSegs segments.
NormTests ==
    {join(<<"..", "a", "..", "..", "d">>), join(<<"a", "", "d", "", "", "">>)}

PathTexts ==
    {join(segs) : segs \in Seqs(Segments, MaxSegs)}
    \cup {<<"/">> \o join(segs) : segs \in Seqs(Segments, MaxSegs)}
    \cup NormTests

NewNorm(text) ==
    [fn |-> "norm", text |-> text, comps |-> path_new(text),
     new_path |-> <<>>, log |-> <<>>, outs |-> <<>>]

\* One turn of the loop over the components.
NormStep ==
    /\ rt.fn = "norm" /\ rt.comps /= <<>>
    /\ LET c == Head(rt.comps)
           after == norm_loop(<<c>>, rt.new_path)
       IN  rt' = [rt EXCEPT !.comps = Tail(@),
                            !.new_path = after,
                            !.log = Append(@, <<rt.new_path, c, after>>)]
    /\ UNCHANGED <<fs, RetryRest>>

\* norm applied to the path, then to the PathBuf it returned.
NormAgain ==
    /\ rt.fn = "norm" /\ rt.comps = <<>> /\ Len(rt.outs) < MaxPasses
    /\ LET from == IF rt.outs = <<>> THEN rt.text ELSE as_text(Last(rt.outs))
       IN  rt' = [rt EXCEPT !.outs = Append(@, norm(path_new(from)))]
    /\ UNCHANGED <<fs, RetryRest>>

InitNorm ==
    /\ fs = [p \in FsPaths |-> NoEntry]
    /\ Alone("norm")
    /\ \E text \in PathTexts : rt = NewNorm(text)

NextNorm == NormStep \/ NormAgain

SpecNorm == InitNorm /\ [][NextNorm]_vars

\* C29: norm is idempotent: applied to its own result it returns it, as
\* components and as text; the result of the loop followed turn by turn is
\* the one norm returns.
C29_NormIdempotent ==
    rt.fn = "norm" =>
        /\ \A k \in 2..Len(rt.outs) :
              /\ rt.outs[k] = rt.outs[k - 1]
              /\ as_text(rt.outs[k]) = as_text(rt.outs[k - 1])
        /\ \A k \in 1..Len(rt.outs) :
              /\ path_new(as_text(rt.outs[k])) = rt.outs[k]
              /\ rt.outs[k] =
                    IF rt.new_path = <<>> THEN <<CurDir>> ELSE rt.new_path

C29_Witness ==
    /\ rt.fn = "norm" /\ Len(rt.outs) = 2
    /\ rt.text = <<"/", "a", "/", "..", "/", "..">>
    /\ rt.outs = << <<RootDir>>, <<RootDir>> >>

\* What stands before a `..` the loop comes to.
Ordinary(stack) == stack /= <<>> /\ IsNormal(Last(stack))

\* C30 as stated: a `..` removes the previous component only when it is an
\* ordinary segment; in every other case (a root, another `..`, none) the
\* `..` is kept in the result.
C30_ParentKeptUnlessOrdinary ==
    rt.fn = "norm" =>
        \A k \in 1..Len(rt.log) :
            LET before == rt.log[k][1]
                after == rt.log[k][3]
            IN  rt.log[k][2] = ParentDir =>
                    IF Ordinary(before) THEN after = Front(before)
                    ELSE after = Append(before, ParentDir)

\* C30: a `..` removes the previous component when it is an ordinary
\* segment; after a root it is dropped and the root stays; after another
\* `..` or at the start it is kept, and stays in the result.
C30_ParentDroppedAtRoot ==
    rt.fn = "norm" =>
        \A k \in 1..Len(rt.log) :
            LET before == rt.log[k][1]
                after == rt.log[k][3]
            IN  rt.log[k][2] = ParentDir =>
                    /\ Ordinary(before) => after = Front(before)
                    /\ (before /= <<>> /\ Last(before) = RootDir) =>
                          after = before
                    /\ (before = <<>> \/ Last(before) = ParentDir) =>
                          /\ after = Append(before, ParentDir)
                          /\ SubSeq(rt.new_path, 1, Len(after)) = after
                    /\ \/ Ordinary(before)
                       \/ before = <<>>
                       \/ Last(before) \in {RootDir, ParentDir}

C30_Witness ==
    /\ rt.fn = "norm" /\ rt.comps = <<>>
    /\ rt.text = <<"/", "..", "/", "a">>
    /\ rt.log[2] = << <<RootDir>>, ParentDir, <<RootDir>> >>
    /\ rt.new_path = <<RootDir, Head(PA)>>

\* ------------------------------------------------------- path predicates
\* is_sandboxed and removable_parent on the components of a path text:
\* is_sandboxed on the path as written and on what norm returns for it (the
\* path CopyOp::new hands to parse_reader), removable_parent on the path as
\* written.  The paths are those of a Unix build: no prefix component.
NewPath(text) ==
    [fn |-> "path", text |-> text, path |-> path_new(text),
     raw |-> <<>>, normed |-> <<>>, parent |-> <<>>]

IsSandboxed ==
    /\ rt.fn = "path" /\ rt.raw = <<>>
    /\ rt' = [rt EXCEPT !.raw = <<is_sandboxed(rt.path)>>]
    /\ UNCHANGED <<fs, RetryRest>>

NormIsSandboxed ==
    /\ rt.fn = "path" /\ rt.normed = <<>>
    /\ rt' = [rt EXCEPT !.normed = <<is_sandboxed(norm(rt.path))>>]
    /\ UNCHANGED <<fs, RetryRest>>

RemovableParent ==
    /\ rt.fn = "path" /\ rt.parent = <<>>
    /\ rt' = [rt EXCEPT !.parent = <<removable_parent(rt.path)>>]
    /\ UNCHANGED <<fs, RetryRest>>

InitPath ==
    /\ fs = [p \in FsPaths |-> NoEntry]
    /\ Alone("path")
    /\ \E text \in PathTexts : rt = NewPath(text)

NextPath == IsSandboxed \/ NormIsSandboxed \/ RemovableParent

SpecPath == InitPath /\ [][NextPath]_vars

\* The first component is neither `..` nor the root.
StaysInside(path) == path /= <<>> => Head(path) \notin {ParentDir, RootDir}

\* C31 as stated: for every path, is_sandboxed of the path is true exactly
\* when the first component of its normal form is neither `..` nor a root.
C31_SandboxedIffNormStaysInside ==
    rt.fn = "path" =>
        \A k \in 1..Len(rt.raw) : rt.raw[k] <=> StaysInside(norm(rt.path))

\* C31: is_sandboxed looks at the first component of the path it is given:
\* on the normal form of a path, as parse calls it, it is true exactly when
\* that form starts with neither `..` nor a root; on a path as written it
\* is true exactly when the path is empty or starts with `.` or a name; the
\* empty path is sandboxed, and so is its normal form `.`.
C31_SandboxedOfNormal ==
    rt.fn = "path" =>
        /\ \A k \in 1..Len(rt.normed) :
              rt.normed[k] <=> StaysInside(norm(rt.path))
        /\ \A k \in 1..Len(rt.raw) :
              /\ rt.raw[k] <=> StaysInside(rt.path)
              /\ rt.text = <<>> => rt.raw[k]

C31_Witness ==
    /\ rt.fn = "path"
    /\ rt.text = <<"a", "/", "..", "/", "..">>
    /\ rt.raw = <<TRUE>> /\ rt.normed = <<FALSE>>
    /\ norm(rt.path) = <<ParentDir>>

\* C32: removable_parent returns the path without its last component when
\* the last component and the one before it are both names, and nothing in
\* every other case: one component, a last component that is not a name, a
\* parent that ends in the root, `.` or `..`.
C32_RemovableParentExact ==
    rt.fn = "path" =>
        \A k \in 1..Len(rt.parent) :
            LET n == Len(rt.path)
            IN  IF n >= 2 /\ IsNormal(rt.path[n]) /\ IsNormal(rt.path[n - 1])
                THEN rt.parent[k] = <<SubSeq(rt.path, 1, n - 1)>>
                ELSE rt.parent[k] = <<>>

C32_Witness ==
    /\ rt.fn = "path"
    /\ rt.text = <<"/", "a", "/", "d">>
    /\ rt.parent = << << <<RootDir, Head(PA)>> >> >>

\* --------------------------------------------- concurrent targets (phases)
\* Two tasks of one phase that pool workers hold at the same time.
Concurrent(t, u) == t \in running /\ u \in running /\ t /= u

SameDelete(t, u) ==
    t.phase = "delete" /\ u.phase = "delete" /\ t.item = u.item

CopyClash(t, u) ==
    /\ t.phase = "copy" /\ u.phase = "copy"
    /\ (t.item.dest = u.item.dest \/ t.item.src = u.item.dest)

\* C33: after a race check that passed, no two tasks that run at the same
\* time in a phase have the same target: no two deletions of one path, no
\* two copies to one destination, no copy reading what another one writes.
C33_NoConcurrentSameTarget ==
    \A t \in running, u \in running :
        Concurrent(t, u) => ~SameDelete(t, u) /\ ~CopyClash(t, u)

\* C33, the part on copies: the copies that run at the same time have
\* distinct destinations and none reads the destination of another.
C33_ConcurrentCopiesDisjoint ==
    \A t \in running, u \in running : Concurrent(t, u) => ~CopyClash(t, u)

C33_Witness ==
    \E t \in running, u \in running :
        Concurrent(t, u) /\ t.phase = "copy" /\ u.phase = "copy"

\* ----------------------------------------------- fan-out and fan-in alone
\* pool.scoped of a concurrent phase with `n` items and a pool of `threads`
\* workers: the closure queues one job per item (the queue of the pool has
\* no bound), then takes `n` results from the channel of capacity ChanCap;
\* a worker takes a job, runs it and sends its result, waiting while the
\* channel is full; the scope is joined when the closure has returned.
\* The fan-in counts the results and reads nothing else of them here: the
\* jobs are numbered in the queue, the busy workers and the results in the
\* channel are counted.
MaxItems == 34
MaxWorkers == 2

NewScoped(n, threads) ==
    [fn |-> "scoped", n |-> n, threads |-> threads, at |-> "execute",
     queued |-> 0, jobs |-> <<>>, running |-> 0, chan |-> 0,
     nrecv |-> 0, early |-> FALSE, lost |-> 0]

\* scope.execute in the `for` loop of the closure.
PoolExecute ==
    /\ rt.fn = "scoped" /\ rt.at = "execute" /\ rt.queued < rt.n
    /\ rt' = [rt EXCEPT !.queued = @ + 1, !.jobs = Append(@, rt.queued + 1)]
    /\ UNCHANGED <<fs, RetryRest>>

\* The loop is over: rx.iter().take(n) starts.
PoolStartRecv ==
    /\ rt.fn = "scoped" /\ rt.at = "execute" /\ rt.queued = rt.n
    /\ rt' = [rt EXCEPT !.at = "take"]
    /\ UNCHANGED <<fs, RetryRest>>

PoolTake ==
    /\ rt.fn = "scoped" /\ rt.jobs /= <<>> /\ rt.running < rt.threads
    /\ rt' = [rt EXCEPT !.running = @ + 1, !.jobs = Tail(@)]
    /\ UNCHANGED <<fs, RetryRest>>

\* Variant: a result is sent although the channel is full, and is lost.
PoolSendDrops ==
    /\ rt.fn = "scoped" /\ rt.running > 0
    /\ rt' = IF rt.chan < ChanCap
             THEN [rt EXCEPT !.running = @ - 1, !.chan = @ + 1]
             ELSE [rt EXCEPT !.running = @ - 1, !.lost = @ + 1]
    /\ UNCHANGED <<fs, RetryRest>>

\* tx.send of a worker: waits while the channel holds ChanCap results.
PoolSend ==
    /\ rt.fn = "scoped" /\ rt.running > 0 /\ rt.chan < ChanCap
    /\ rt' = [rt EXCEPT !.running = @ - 1, !.chan = @ + 1]
    /\ UNCHANGED <<fs, RetryRest>>

\* One turn of the loop over rx.iter().take(n).
PoolRecv ==
    /\ rt.fn = "scoped" /\ rt.at = "take" /\ rt.nrecv < rt.n
    /\ rt.chan > 0
    /\ rt' = [rt EXCEPT !.nrecv = @ + 1, !.chan = @ - 1,
                        !.early = @ \/ rt.queued < rt.n]
    /\ UNCHANGED <<fs, RetryRest>>

\* take(n) is exhausted, the closure returns and the scope is joined.
PoolJoin ==
    /\ rt.fn = "scoped" /\ rt.at = "take" /\ rt.nrecv = rt.n
    /\ rt.jobs = <<>> /\ rt.running = 0
    /\ rt' = [rt EXCEPT !.at = "joined"]
    /\ UNCHANGED <<fs, RetryRest>>

InitPool ==
    /\ fs = [p \in FsPaths |-> NoEntry]
    /\ Alone("scoped")
    /\ \E n \in 0..MaxItems, threads \in 1..MaxWorkers :
          rt = NewScoped(n, threads)

NextPool ==
    PoolExecute \/ PoolStartRecv \/ PoolTake \/ PoolSend \/ PoolRecv \/ PoolJoin

\* The threads of the pool and the orchestrator are scheduled by the
\* system: a step that stays possible is taken.
SpecPool ==
    /\ InitPool /\ [][NextPool]_vars
    /\ WF_vars(PoolExecute) /\ WF_vars(PoolStartRecv) /\ WF_vars(PoolTake)
    /\ WF_vars(PoolSend) /\ WF_vars(PoolRecv) /\ WF_vars(PoolJoin)

\* A worker has a result to send and the channel is full.
SendBlocked == rt.running > 0 /\ rt.chan = ChanCap

PoolSafe ==
    rt.fn = "scoped" =>
        /\ ~rt.early
        /\ rt.nrecv <= rt.n
        /\ rt.nrecv + rt.chan + rt.running + Len(rt.jobs) = rt.queued
        /\ rt.at = "joined" => rt.nrecv = rt.n /\ rt.chan = 0
        /\ rt.at /= "joined" => ENABLED NextPool

\* C34: for every number of items, also above the capacity of the channel,
\* and every pool of one worker or more: all the jobs are queued before the
\* first result is taken, a worker that waits on the full channel gets to
\* send, exactly the n results are taken, one per item, no state short of
\* the end is without a step, and the scope is joined in the end.
C34_FanInTerminates ==
    /\ []PoolSafe
    /\ [](SendBlocked => <>(~SendBlocked))
    /\ <>(rt.at = "joined")

C34_Witness ==
    /\ rt.fn = "scoped" /\ rt.n > ChanCap
    /\ SendBlocked /\ rt.at = "take" /\ rt.jobs /= <<>>

\* ------------------------------------------- the parents of deleted paths
\* The loop of phase 2 over the parent directories of to_delete, for lists
\* of deleted paths up to three components deep, in the order of
\* prev.dests(); each turn is one call of remove_empty_dirs.
MaxDeleted == 3

DeepPaths ==
    {<<3>>, <<3, 3>>, <<3, 4>>, <<3, 4, 3>>, <<3, 5>>, <<4, 3>>, <<4, 4>>}

DeletedLists == {s \in Seqs(DeepPaths, MaxDeleted) : Ascending(s)}

NewParents(deleted) ==
    [fn |-> "parent_dirs", to_delete |-> deleted,
     parent_dirs |-> parent_dirs(deleted), calls |-> <<>>]

\* `for dir in parent_dirs`: remove_empty_dirs(dir, ...).
ParentDirsNext ==
    /\ rt.fn = "parent_dirs" /\ Len(rt.calls) < Len(rt.parent_dirs)
    /\ rt' = [rt EXCEPT !.calls = Append(@, rt.parent_dirs[Len(rt.calls) + 1])]
    /\ UNCHANGED <<fs, RetryRest>>

InitParents ==
    /\ fs = [p \in FsPaths |-> NoEntry]
    /\ Alone("rmdirs")
    /\ \E deleted \in DeletedLists : rt = NewParents(deleted)

NextParents == ParentDirsNext

SpecParents == InitParents /\ [][NextParents]_vars

\* C35: in a run, remove_empty_dirs is called at most once for each parent
\* directory of the deleted paths, whatever stands between two deleted
\* paths of one directory in the sorted list.
C35_OneCallPerParent ==
    rt.fn = "parent_dirs" =>
        \A i, j \in 1..Len(rt.calls) : i /= j => rt.calls[i] /= rt.calls[j]

\* The deleted paths a/b, a/c/d, a/e: the directory a is visited twice.
C35_Witness ==
    /\ rt.fn = "parent_dirs"
    /\ rt.to_delete = << <<3, 3>>, <<3, 4, 3>>, <<3, 5>> >>
    /\ rt.calls = << <<3>>, <<3, 4>>, <<3>> >>

\* --------------------------------------------- `..` in the normal form
\* The number of `..` of a relative path that find no name to remove, and
\* the names that are left, counted on the components of the path.
RECURSIVE Escapes(_, _)
Escapes(comps, depth) ==
    IF comps = <<>> THEN 0
    ELSE IF Head(comps) = ParentDir
         THEN IF depth > 0 THEN Escapes(Tail(comps), depth - 1)
              ELSE 1 + Escapes(Tail(comps), 0)
    ELSE IF Head(comps) = CurDir THEN Escapes(Tail(comps), depth)
    ELSE Escapes(Tail(comps), depth + 1)

Count(path, c) == Cardinality({i \in 1..Len(path) : path[i] = c})

\* C36: the normal form of an absolute path starts at the root and holds no
\* `..` (a `..` next to the root is dropped); the normal form of a relative
\* path keeps, in front and nowhere else, the `..` that found nothing to
\* remove; the empty path gives `.`.
C36_ParentOnlyLeadsRelative ==
    rt.fn = "norm" =>
        \A k \in 1..Len(rt.outs) :
            LET comps == path_new(rt.text)
                out == rt.outs[k]
                ups == Count(out, ParentDir)
            IN  /\ out /= <<>>
                /\ (comps /= <<>> /\ Head(comps) = RootDir) =>
                      Head(out) = RootDir /\ ups = 0
                /\ (comps = <<>> \/ Head(comps) /= RootDir) =>
                      /\ ups = Escapes(comps, 0)
                      /\ \A i \in 1..ups : out[i] = ParentDir
                      /\ Head(out) /= RootDir
                /\ rt.text = <<>> => out = <<CurDir>>

C36_Witness ==
    /\ rt.fn = "norm" /\ Len(rt.outs) >= 1
    /\ rt.text = join(<<"..", "a", "..", "..", "d">>)
    /\ rt.outs[1] = <<ParentDir, ParentDir, Head(PD)>>

\* ------------------------------------------------ phase 6 after the copies
\* C37: in a run that is not a dry run and verifies, in which no call is
\* disturbed and nothing but the run touches the files, sync never returns
\* SanityNotCopied: once the copies of phase 5 have succeeded, phase 6 finds
\* every operation of next complete.
C37_VerifyFindsAllComplete ==
    (SyncReturned /\ ~faulted) => result.kind /= "SanityNotCopied"

\* The copies succeeded and phase 6 ran.
C37_Witness ==
    /\ SyncReturned /\ ~faulted /\ sanity /\ ~dryrun
    /\ result.kind = "Ok" /\ result.count >= 1
    /\ AttemptsOf("verify") /= {}

\* ------------------------------------------- phase 2 and the sources of next
\* C38: when the race check has passed, no path on which phase 2 attempts a
\* deletion is a source of an operation of next.
C38_PruneSparesSources ==
    DeleteTargets \cap Range(srcs(next)) = {}

\* A deletion of phase 2 was attempted while next has operations.
C38_Witness ==
    /\ DeleteTargets /= {} /\ next /= <<>>
    /\ DeleteTargets \cap Range(srcs(next)) = {}

\* ------------------------------------------ sources that are regular files
\* No path was a symbolic link when the run, and the run before it, began.
NoLinks == \A p \in FsPaths : fs0[p] /= LinkV1 /\ last.fs0[p] /= LinkV1

\* C11, C24, C25 and C37 hold where they are not about a symbolic link (and,
\* for C11 and C24, not about a stale path made a directory or a run that
\* the race check aborts).
C11_RegularFilesReconcile == NoLinks => C11_SuccessReconcilesFiles
C24_RegularFilesResume == NoLinks => C24_ResumeSucceedsPastRaces
C25_RegularFilesSecondRun == NoLinks => C25_SecondRunDoesNothing
C37_RegularFilesVerify == NoLinks => C37_VerifyFindsAllComplete

\* ------------------------------------------------ a pool of any thread count
\* The same fan-out and fan-in for every thread count the command line
\* accepts, from 0 on: Pool::new(threads) starts `threads` workers and no
\* other thread ever takes a job.
InitPoolAny ==
    /\ fs = [p \in FsPaths |-> NoEntry]
    /\ Alone("scoped")
    /\ \E n \in 0..MaxItems, threads \in 0..MaxWorkers :
          rt = NewScoped(n, threads)

SpecPoolAny ==
    /\ InitPoolAny /\ [][NextPool]_vars
    /\ WF_vars(PoolExecute) /\ WF_vars(PoolStartRecv) /\ WF_vars(PoolTake)
    /\ WF_vars(PoolSend) /\ WF_vars(PoolRecv) /\ WF_vars(PoolJoin)

\* C39: for every thread count, 0 included, and every number of items, the
\* scope of a concurrent phase is joined in the end, so that sync returns:
\* no phase waits forever for results that no worker produces.
C39_SyncReturns == <>(rt.at = "joined")

\* A phase with items and a pool without workers: the closure waits for a
\* first result and nothing can happen.
C39_Witness ==
    /\ rt.fn = "scoped" /\ rt.threads = 0 /\ rt.n >= 1
    /\ rt.at = "take" /\ rt.nrecv = 0 /\ ~(ENABLED NextPool)

\* ------------------------------------------------------ sandbox and rebase
\* parse_reader on one record `a<TAB>dest`, for every destination text,
\* with and without --sandbox-dest and --sandbox-src, and a destination
\* directory that is empty, relative, absolute, `.` or leaves through `..`.
DestRoots ==
    {<<>>, <<".">>, <<"d">>, <<"/", "d">>, <<"..">>, <<"d", "/", "..">>,
     <<"..", "/", "d">>, <<".", "/", "d">>}

SrcTexts == {<<"a">>, <<"..", "/", "a">>}

NewSandbox(src, dest, root, sb_src, sb_dest) ==
    [fn |-> "parse", src |-> src, dest |-> dest, dest_dir |-> root,
     sandbox_src |-> sb_src, sandbox_dest |-> sb_dest, m |-> <<>>]

ParseSandboxed ==
    /\ rt.fn = "parse" /\ rt.m = <<>>
    /\ rt' = [rt EXCEPT !.m =
                 <<parse_records(<< <<path_new(rt.src), path_new(rt.dest)>> >>,
                                 1, <<>>, path_new(rt.dest_dir),
                                 rt.sandbox_src, rt.sandbox_dest)>>]
    /\ UNCHANGED <<fs, RetryRest>>

InitSandbox ==
    /\ fs = [p \in FsPaths |-> NoEntry]
    /\ Alone("parse")
    /\ \E src \in SrcTexts, dest \in PathTexts, root \in DestRoots,
          sb_src \in BOOLEAN, sb_dest \in BOOLEAN :
          rt = NewSandbox(src, dest, root, sb_src, sb_dest)

NextSandbox == ParseSandboxed

SpecSandbox == InitSandbox /\ [][NextSandbox]_vars

StartsWith(path, head) ==
    Len(head) <= Len(path) /\ SubSeq(path, 1, Len(head)) = head

\* `path` is `head` followed by components that are not `..`.
Under(path, head) ==
    /\ StartsWith(path, head)
    /\ \A i \in (Len(head) + 1)..Len(path) : path[i] /= ParentDir

\* The record is refused when its destination leaves the sandbox.
RefusesOutside ==
    \A k \in 1..Len(rt.m) :
        (rt.sandbox_dest /\ ~StaysInside(norm(path_new(rt.dest)))) =>
            ~rt.m[k].ok

Stem(root) == IF root = <<CurDir>> THEN <<>> ELSE root

====
